---------------------------- MODULE Spec2Model ----------------------------
(* A model of the cpp_transform engine of concore (tools/cpp_transform):   *)
(* the translation unit with its deferred replacements, the token matcher, *)
(* the AST visitors, the namespace-name reconstruction, the rules           *)
(* (NamespaceRename, IncludeToQuotes, TokenIdReplace, SurroundTokens,      *)
(* ReplaceTokens, AddInNamespace) run by apply_transform, and the          *)
(* construction of the rules by load_rules.                                *)
(*                                                                         *)
(* Text is a sequence of one-character strings; a Python offset o of a     *)
(* buffer is the boundary before the element o + 1 of the sequence, so the *)
(* slice buf[a:b] is SubSeq(buf, a + 1, b).                                *)
EXTENDS Integers, Sequences, FiniteSets, TLC

VARIABLES
    contents,      \* TransformedUnit._contents
    replacements,  \* TransformedUnit.replacements: list of (start, end, text)
    outFile,       \* the file written by save: <<>> (none yet) or <<text>>
    lastOp,        \* the last TransformedUnit method called
    err,           \* the exception the last call raised, "none" if it returned
    adds,          \* number of add_replacement calls that returned
    tokensList,    \* find_tokens, find_token: the tokens searched
    expected,      \* find_tokens: the (kind, text) pairs looked for
    startIdx,      \* find_tokens, find_token: start_idx
    found,         \* what the last search returned
    ast,           \* the AST: node -> kind, spelling, location file, extent, children
    visitor,       \* the visit function called: "all" or "cur"
    calls,         \* the calls of the functor f, in order: node and value returned
    nsNode,        \* get_complete_namespace_name: the node passed
    fullName,      \* get_complete_namespace_name: <<>> or <<the name returned>>
    rules,         \* apply_transform: the rules to run on the unit, in order
    ruleIdx,       \* apply_transform: number of rules whose run has been called
    nodesToReplace,\* NamespaceRename.run: nodes_to_replace of the last run
    rulesFile,     \* the rules file: a list of rule names with their parameters
    pc             \* the step the program is at

unitVars == <<contents, replacements, outFile, lastOp, err, adds>>
findVars == <<tokensList, expected, startIdx, found>>
astVars == <<ast, visitor, calls, nsNode, fullName>>
ruleVars == <<rules, ruleIdx, nodesToReplace, rulesFile>>
vars == <<unitVars, findVars, astVars, ruleVars, pc>>

-----------------------------------------------------------------------------
(* Bounds *)

\* Number of successful add_replacement calls on one unit.
MaxAdds == 3

-----------------------------------------------------------------------------
(* Text *)

\* Code point order of the characters used, for Python's str comparison.
Ord(c) ==
    CASE c = ":" -> 1
      [] c = "A" -> 2
      [] c = "B" -> 3
      [] c = "C" -> 4
      [] c = "X" -> 5
      [] c = "Y" -> 6
      [] c = "a" -> 7
      [] c = "b" -> 8
      [] c = "c" -> 9
      [] c = "d" -> 10
      [] OTHER -> 11

\* Python's s < t on str: lexicographic by code point, a proper prefix first.
RECURSIVE StrLess(_, _)
StrLess(s, t) ==
    IF t = <<>> THEN FALSE
    ELSE IF s = <<>> THEN TRUE
    ELSE IF Head(s) # Head(t) THEN Ord(Head(s)) < Ord(Head(t))
    ELSE StrLess(Tail(s), Tail(t))

\* The buffers a unit is read from, the empty one included: every character
\* differs, so that a misplaced or repeated character shows in the output.
SourceText == <<"a", "b", "c">>
InitialContents == { SubSeq(SourceText, 1, n) : n \in 0..Len(SourceText) }

\* Replacement texts: shorter than, as long as and longer than a one-character
\* range, so that offsets of the output and of the buffer differ.
Texts == { <<>>, <<"X", "Y">> }

PrimaryFile == "unit.hpp"
Files == { PrimaryFile, "other.hpp" }

-----------------------------------------------------------------------------
(* TransformedUnit *)

\* Python's tuple comparison a < b on (start, end, text).
TupleLess(a, b) ==
    \/ a.start < b.start
    \/ a.start = b.start /\ a.end < b.end
    \/ a.start = b.start /\ a.end = b.end /\ StrLess(a.text, b.text)

\* Insert index i into the sorted index list s, after every entry that is
\* not greater: sorted() is stable.
RECURSIVE InsertIdx(_, _, _)
InsertIdx(reps, s, i) ==
    IF s = <<>> THEN <<i>>
    ELSE IF TupleLess(reps[i], reps[Head(s)]) THEN <<i>> \o s
    ELSE <<Head(s)>> \o InsertIdx(reps, Tail(s), i)

RECURSIVE SortFrom(_, _, _)
SortFrom(reps, s, i) ==
    IF i > Len(reps) THEN s
    ELSE SortFrom(reps, InsertIdx(reps, s, i), i + 1)

\* Unsorted: the pending list in the order of the add_replacement calls.
SortedIdxUnsorted(reps) == [i \in 1..Len(reps) |-> i]

\* sorted(self.replacements), as the list of the indices into the pending
\* list, so that equal tuples keep their identity.
SortedIdx(reps) == SortFrom(reps, <<>>, 1)

\* The loop of _get_modified_content with the overlap test dropped.
RECURSIVE ModifiedLoopNoDrop(_, _, _, _, _)
ModifiedLoopNoDrop(buf, reps, order, k, st) ==
    IF k > Len(order) THEN st
    ELSE LET r == reps[order[k]]
         IN ModifiedLoopNoDrop(buf, reps, order, k + 1,
                [cur |-> r.end,
                 result |-> st.result \o SubSeq(buf, st.cur + 1, r.start) \o r.text,
                 applied |-> Append(st.applied, order[k]),
                 dropped |-> st.dropped])

\* The loop of _get_modified_content leaving the cursor at the start of the range.
RECURSIVE ModifiedLoopCurStart(_, _, _, _, _)
ModifiedLoopCurStart(buf, reps, order, k, st) ==
    IF k > Len(order) THEN st
    ELSE LET r == reps[order[k]]
         IN IF r.start < st.cur
            THEN ModifiedLoopCurStart(buf, reps, order, k + 1,
                    [st EXCEPT !.dropped = Append(@, order[k])])
            ELSE ModifiedLoopCurStart(buf, reps, order, k + 1,
                    [cur |-> r.start,
                     result |-> st.result \o SubSeq(buf, st.cur + 1, r.start) \o r.text,
                     applied |-> Append(st.applied, order[k]),
                     dropped |-> st.dropped])

\* The for loop of _get_modified_content from the k-th sorted replacement on;
\* st holds cur and result, and the indices applied and dropped so far (each
\* drop prints one warning).
RECURSIVE ModifiedLoop(_, _, _, _, _)
ModifiedLoop(buf, reps, order, k, st) ==
    IF k > Len(order) THEN st
    ELSE LET r == reps[order[k]]
         IN IF r.start < st.cur
            THEN ModifiedLoop(buf, reps, order, k + 1,
                    [st EXCEPT !.dropped = Append(@, order[k])])
            ELSE ModifiedLoop(buf, reps, order, k + 1,
                    [cur |-> r.end,
                     result |-> st.result \o SubSeq(buf, st.cur + 1, r.start) \o r.text,
                     applied |-> Append(st.applied, order[k]),
                     dropped |-> st.dropped])

\* The state of _get_modified_content when its loop ends.
Materialize(buf, reps) ==
    ModifiedLoop(buf, reps, SortedIdx(reps), 1,
                 [cur |-> 0, result |-> <<>>, applied |-> <<>>, dropped |-> <<>>])

\* TransformedUnit._get_modified_content
GetModifiedContent(buf, reps) ==
    IF reps = <<>> THEN buf
    ELSE LET st == Materialize(buf, reps)
         IN st.result \o SubSeq(buf, st.cur + 1, Len(buf))

\* The indices of the pending replacements that materialization applies, in
\* the order it applies them, and of those it drops.
Applied(buf, reps) == Materialize(buf, reps).applied
Dropped(buf, reps) == Materialize(buf, reps).dropped

\* add_replacement without the assertion on the range.
AddResultNoRangeCheck(reps, rng, text) ==
    IF rng.file # PrimaryFile
    THEN [err |-> "file", reps |-> reps]
    ELSE [err |-> "none",
          reps |-> Append(reps, [start |-> rng.start, end |-> rng.end, text |-> text])]

\* TransformedUnit.add_replacement(loc_range, new_text) on the pending list
\* reps: the assertion that fails ("none" when the call returns) and the
\* pending list the call leaves.
AddResult(reps, rng, text) ==
    IF ~(rng.end > rng.start)
    THEN [err |-> "range", reps |-> reps]
    ELSE IF rng.file # PrimaryFile
    THEN [err |-> "file", reps |-> reps]
    ELSE [err |-> "none",
          reps |-> Append(reps, [start |-> rng.start, end |-> rng.end, text |-> text])]

-----------------------------------------------------------------------------
(* Token matcher (_utils.py) *)

\* The token kinds of clang.cindex.TokenKind the rules use.
TokenKinds == { "IDENTIFIER", "PUNCTUATION", "KEYWORD", "COMMENT" }

\* The inner loop of find_tokens, for j in range(m), from j on: is_ok.
RECURSIVE MatchAt(_, _, _, _)
MatchAt(ex, toks, i, j) ==
    IF j >= Len(ex) THEN TRUE
    ELSE IF toks[i + j + 1].kind # ex[j + 1].kind \/ toks[i + j + 1].spelling # ex[j + 1].spelling
    THEN FALSE
    ELSE MatchAt(ex, toks, i, j + 1)

\* The outer loop of find_tokens stopping one index early.
RECURSIVE FindTokensLoopShort(_, _, _)
FindTokensLoopShort(ex, toks, i) ==
    IF i >= Len(toks) - Len(ex) THEN -1
    ELSE IF MatchAt(ex, toks, i, 0) THEN i
    ELSE FindTokensLoopShort(ex, toks, i + 1)

\* The outer loop of find_tokens, for i in range(start_idx, n - m + 1), from i on.
RECURSIVE FindTokensLoop(_, _, _)
FindTokensLoop(ex, toks, i) ==
    IF i >= Len(toks) - Len(ex) + 1 THEN -1
    ELSE IF MatchAt(ex, toks, i, 0) THEN i
    ELSE FindTokensLoop(ex, toks, i + 1)

\* find_tokens(expected, tokens_list, start_idx)
FindTokens(ex, toks, start) == FindTokensLoop(ex, toks, start)

\* The loop of find_token, for i in range(start_idx, n), from i on.
RECURSIVE FindTokenLoop(_, _, _, _)
FindTokenLoop(kind, text, toks, i) ==
    IF i >= Len(toks) THEN -1
    ELSE IF toks[i + 1].kind = kind /\ toks[i + 1].spelling = text THEN i
    ELSE FindTokenLoop(kind, text, toks, i + 1)

\* find_token(kind, text, tokens_list, start_idx)
FindToken(kind, text, toks, start) == FindTokenLoop(kind, text, toks, start)

-----------------------------------------------------------------------------
(* AST visitors (_utils.py) *)

\* No file: the location of the translation unit cursor has none.
NoFile == "<none>"

\* What a functor returns: True, False (or nothing), a StopToken.
Returns == { "True", "False", "StopToken" }

RECURSIVE DoVisitAll(_, _, _, _)
RECURSIVE VisitChildrenAll(_, _, _, _, _)
RECURSIVE DoVisitCur(_, _, _, _, _)
RECURSIVE VisitChildrenCur(_, _, _, _, _, _)

\* The loop over the children in visit_all_ast._do_visit from the k-th child
\* on: whether to stop, and the calls made so far.
VisitChildrenAll(t, f, cs, k, log) ==
    IF k > Len(cs) THEN [stop |-> FALSE, log |-> log]
    ELSE LET r == DoVisitAll(t, f, cs[k], log)
         IN IF r.stop THEN [stop |-> TRUE, log |-> r.log]
            ELSE VisitChildrenAll(t, f, cs, k + 1, r.log)

\* visit_all_ast._do_visit(node)
DoVisitAll(t, f, node, log) ==
    LET called == Append(log, [node |-> node, ret |-> f[node]])
    IN IF f[node] = "StopToken" THEN [stop |-> TRUE, log |-> called]
       ELSE IF f[node] = "True" THEN VisitChildrenAll(t, f, t[node].children, 1, called)
       ELSE [stop |-> FALSE, log |-> called]

\* visit_all_ast(node, f): the calls of f
VisitAllAst(t, root, f) == DoVisitAll(t, f, root, <<>>).log

\* The loop over the children leaving the loop, not the traversal, on a stop.
VisitChildrenCurBreak(t, f, ourFile, cs, k, log) ==
    IF k > Len(cs) THEN [stop |-> FALSE, log |-> log]
    ELSE LET r == DoVisitCur(t, f, ourFile, cs[k], log)
         IN IF r.stop THEN [stop |-> FALSE, log |-> r.log]
            ELSE VisitChildrenCur(t, f, ourFile, cs, k + 1, r.log)

\* The loop over the children in visit_cur_unit_ast._do_visit from the k-th
\* child on.
VisitChildrenCur(t, f, ourFile, cs, k, log) ==
    IF k > Len(cs) THEN [stop |-> FALSE, log |-> log]
    ELSE LET r == DoVisitCur(t, f, ourFile, cs[k], log)
         IN IF r.stop THEN [stop |-> TRUE, log |-> r.log]
            ELSE VisitChildrenCur(t, f, ourFile, cs, k + 1, r.log)

\* visit_cur_unit_ast._do_visit(node)
DoVisitCur(t, f, ourFile, node, log) ==
    IF t[node].file # NoFile /\ t[node].file # ourFile
    THEN [stop |-> FALSE, log |-> log]
    ELSE LET called == Append(log, [node |-> node, ret |-> f[node]])
         IN IF f[node] = "StopToken" THEN [stop |-> TRUE, log |-> called]
            ELSE IF f[node] = "True"
            THEN VisitChildrenCur(t, f, ourFile, t[node].children, 1, called)
            ELSE [stop |-> FALSE, log |-> called]

\* visit_cur_unit_ast(node, f): the calls of f; our_file is the file of the
\* start of the extent of the node the visit starts from.
VisitCurUnitAst(t, root, f) == DoVisitCur(t, f, t[root].extentFile, root, <<>>).log

-----------------------------------------------------------------------------
(* Qualified namespace names (_utils.py, NamespaceRename.py) *)

ColonColon == <<":", ":">>

\* The loop of get_complete_namespace_name without the test of the end.
RECURSIVE NamespaceNameLoopAnyEnd(_, _, _, _)
NamespaceNameLoopAnyEnd(t, node, endLoc, name) ==
    LET children == t[node].children
    IN IF Len(children) = 1 /\ t[children[1]].kind = "NAMESPACE"
       THEN NamespaceNameLoopAnyEnd(t, children[1], endLoc,
                name \o ColonColon \o t[children[1]].spelling)
       ELSE name

\* The while loop of _utils.get_complete_namespace_name: full_name when it ends.
RECURSIVE NamespaceNameLoop(_, _, _, _)
NamespaceNameLoop(t, node, endLoc, name) ==
    LET children == t[node].children
    IN IF Len(children) = 1
          /\ t[children[1]].kind = "NAMESPACE"
          /\ t[children[1]].end = endLoc
       THEN NamespaceNameLoop(t, children[1], endLoc,
                name \o ColonColon \o t[children[1]].spelling)
       ELSE name

\* _utils.get_complete_namespace_name(node)
GetCompleteNamespaceName(t, node) ==
    NamespaceNameLoop(t, node, t[node].end, t[node].spelling)

\* The while loop of NamespaceRename._get_complete_namespace_name.
RECURSIVE RenameNameLoop(_, _, _, _)
RenameNameLoop(t, node, endLoc, name) ==
    LET children == t[node].children
    IN IF Len(children) = 1
          /\ t[children[1]].kind = "NAMESPACE"
          /\ t[children[1]].end = endLoc
       THEN RenameNameLoop(t, children[1], endLoc,
                name \o ColonColon \o t[children[1]].spelling)
       ELSE name

\* NamespaceRename._get_complete_namespace_name(node)
RenameGetCompleteNamespaceName(t, node) ==
    RenameNameLoop(t, node, t[node].end, t[node].spelling)

-----------------------------------------------------------------------------
(* The NamespaceRename rule (NamespaceRename.py) *)

\* Does sub occur in s at offset i?
OccursAt(s, sub, i) ==
    /\ i + Len(sub) <= Len(s)
    /\ SubSeq(s, i + 1, i + Len(sub)) = sub

\* str.count(sub) for a non-empty sub: the occurrences that do not overlap,
\* counted from offset i on.
RECURSIVE CountFrom(_, _, _)
CountFrom(s, sub, i) ==
    IF i + Len(sub) > Len(s) THEN 0
    ELSE IF OccursAt(s, sub, i) THEN 1 + CountFrom(s, sub, i + Len(sub))
    ELSE CountFrom(s, sub, i + 1)

\* sub in s
Contains(s, sub) == \E i \in 0..Len(s) : OccursAt(s, sub, i)

\* str.replace(old, new) for a non-empty old, from offset i on.
RECURSIVE ReplaceFrom(_, _, _, _)
ReplaceFrom(s, old, new, i) ==
    IF i >= Len(s) THEN <<>>
    ELSE IF OccursAt(s, old, i) THEN new \o ReplaceFrom(s, old, new, i + Len(old))
    ELSE <<s[i + 1]>> \o ReplaceFrom(s, old, new, i + 1)

\* NamespaceRename.__init__ with the parameters "from" and "to".
NamespaceRename(from, to) ==
    [from |-> from, to |-> to, fromNumParts |-> CountFrom(from, ColonColon, 0) + 1]

KwNamespace == <<"n", "a", "m", "e", "s", "p", "a", "c", "e">>

\* TransformedUnit.get_tokens(extent): the tokens of the unit that lie in the
\* extent from offset s to offset e.
GetTokens(toks, s, e) ==
    SelectSeq(toks, LAMBDA tok : tok.start >= s /\ tok.end <= e)

\* _visit_fun of run returning True for the namespaces as well.
VisitFunDescend(rule, t) ==
    [x \in DOMAIN t |->
        IF t[x].kind = "NAMESPACE"
           /\ RenameGetCompleteNamespaceName(t, x) # rule.from
        THEN "False"
        ELSE "True"]

\* _visit_fun of run: what it returns for each node.
VisitFun(rule, t) ==
    [x \in DOMAIN t |->
        IF t[x].kind = "NAMESPACE"
           /\ RenameGetCompleteNamespaceName(t, x) # rule.from
        THEN "False"
        ELSE IF t[x].kind = "TRANSLATION_UNIT" THEN "True" ELSE "False"]

\* nodes_to_replace after the visit of run: the nodes _visit_fun was called
\* on and appended, in the order of the calls.
RECURSIVE AppendedOf(_, _, _, _)
AppendedOf(rule, t, log, k) ==
    IF k > Len(log) THEN <<>>
    ELSE LET x == log[k].node
             rest == AppendedOf(rule, t, log, k + 1)
         IN IF t[x].kind = "NAMESPACE"
               /\ RenameGetCompleteNamespaceName(t, x) = rule.from
            THEN <<x>> \o rest
            ELSE rest

NodesToReplace(rule, t) ==
    AppendedOf(rule, t, VisitCurUnitAst(t, 1, VisitFun(rule, t)), 1)

\* The comment part of the loop body of run, for a node whose extent ends at
\* offset e: the comment that follows the namespace is renamed as well.
RenameComment(rule, toks, e, reps) ==
    LET after == SelectSeq(toks, LAMBDA tok : tok.start >= e)
    IN IF after # <<>> /\ after[1].kind = "COMMENT"
          /\ Contains(after[1].spelling, rule.from)
       THEN LET newComment == ReplaceFrom(after[1].spelling, rule.from, rule.to, 0)
            IN IF newComment # after[1].spelling
               THEN AddResult(reps,
                        [start |-> after[1].start, end |-> after[1].end,
                         file |-> PrimaryFile], newComment)
               ELSE [err |-> "none", reps |-> reps]
       ELSE [err |-> "none", reps |-> reps]

\* The loop of run over nodes_to_replace, from the k-th node on, with reps
\* pending: the exception raised ("none" when the loop ends) and the pending
\* list left.
RECURSIVE ReplaceLoop(_, _, _, _, _, _)
ReplaceLoop(rule, t, toks, nodes, k, reps) ==
    IF k > Len(nodes) THEN [err |-> "none", reps |-> reps]
    ELSE LET tokens == GetTokens(toks, t[nodes[k]].start, t[nodes[k]].end)
             idx == FindToken("PUNCTUATION", <<"{">>, tokens, 0)
         IN IF tokens = <<>> THEN [err |-> "index", reps |-> reps]
            ELSE IF ~(tokens[1].kind = "KEYWORD" /\ tokens[1].spelling = KwNamespace)
            THEN [err |-> "assert", reps |-> reps]
            ELSE IF idx # rule.fromNumParts * 2
            THEN [err |-> "assert", reps |-> reps]
            ELSE LET named == AddResult(reps,
                                 [start |-> tokens[2].start, end |-> tokens[idx].end,
                                  file |-> PrimaryFile], rule.to)
                 IN IF named.err # "none" THEN named
                    ELSE LET commented ==
                                 RenameComment(rule, toks, t[nodes[k]].end, named.reps)
                         IN IF commented.err # "none" THEN commented
                            ELSE ReplaceLoop(rule, t, toks, nodes, k + 1, commented.reps)

\* NamespaceRename.run(unit, verbose): nodes_to_replace, the exception raised
\* and the pending list of the unit after the call.
NamespaceRenameRun(rule, t, toks, reps) ==
    LET nodes == NodesToReplace(rule, t)
        done == ReplaceLoop(rule, t, toks, nodes, 1, reps)
    IN [nodes |-> nodes, err |-> done.err, reps |-> done.reps]

-----------------------------------------------------------------------------
(* Specification Spec: one TransformedUnit from its construction to save *)

\* The values of the variables of the other specifications.
FindIdle ==
    /\ tokensList = <<>>
    /\ expected = <<>>
    /\ startIdx = 0
    /\ found = <<>>

RuleIdle ==
    /\ rules = <<>>
    /\ ruleIdx = 0
    /\ nodesToReplace = <<>>
    /\ rulesFile = <<>>

AstIdle ==
    /\ ast = <<>>
    /\ visitor = "none"
    /\ calls = <<>>
    /\ nsNode = 0
    /\ fullName = <<>>

\* The source ranges a caller can pass: offsets of the current buffer.
Ranges == { [start |-> s, end |-> e, file |-> f] :
                s \in 0..Len(contents), e \in 0..Len(contents), f \in Files }

\* A call of add_replacement on the unit.
AddReplacement(rng, text) ==
    /\ lastOp # "save"
    /\ adds < MaxAdds
    /\ lastOp' = "add"
    /\ err' = AddResult(replacements, rng, text).err
    /\ replacements' = AddResult(replacements, rng, text).reps
    /\ adds' = IF err' = "none" THEN adds + 1 ELSE adds
    /\ UNCHANGED <<contents, outFile, findVars, astVars, ruleVars, pc>>

AddReplacementCall == \E rng \in Ranges, text \in Texts : AddReplacement(rng, text)

\* apply_and_reparse keeping the pending list.
ReparsedKeep(buf, reps) == [contents |-> GetModifiedContent(buf, reps), reps |-> reps]

\* TransformedUnit.apply_and_reparse(): the buffer and the pending list it leaves.
Reparsed(buf, reps) == [contents |-> GetModifiedContent(buf, reps), reps |-> <<>>]

\* A call of apply_and_reparse on the unit.
ApplyAndReparse ==
    /\ lastOp # "save"
    /\ contents' = Reparsed(contents, replacements).contents
    /\ replacements' = Reparsed(contents, replacements).reps
    /\ lastOp' = "apply"
    /\ err' = "none"
    /\ UNCHANGED <<outFile, adds, findVars, astVars, ruleVars, pc>>

\* TransformedUnit.save(filename): the unit is not used after it.
Save ==
    /\ lastOp # "save"
    /\ outFile' = <<GetModifiedContent(contents, replacements)>>
    /\ lastOp' = "save"
    /\ err' = "none"
    /\ UNCHANGED <<contents, replacements, adds, findVars, astVars, ruleVars, pc>>

\* TransformedUnit.__init__: the buffer read from the file, nothing pending.
Init ==
    /\ contents \in InitialContents
    /\ replacements = <<>>
    /\ outFile = <<>>
    /\ lastOp = "init"
    /\ err = "none"
    /\ adds = 0
    /\ FindIdle
    /\ AstIdle
    /\ RuleIdle
    /\ pc = "unit"

Next ==
    \/ AddReplacementCall
    \/ ApplyAndReparse
    \/ Save

Spec == Init /\ [][Next]_vars

-----------------------------------------------------------------------------
(* Specification SpecFind: find_tokens and find_token on bounded inputs *)

\* Length of the token list searched.
MaxTokens == 3
\* Length of the expected list.
MaxExpected == 2

\* Tokens that differ in their kind alone and in their spelling alone.
TokenAlphabet ==
    { [kind |-> "IDENTIFIER", spelling |-> <<"a">>],
      [kind |-> "IDENTIFIER", spelling |-> <<"b">>],
      [kind |-> "KEYWORD", spelling |-> <<"a">>] }

SeqsUpTo(S, n) == UNION { [1..k -> S] : k \in 0..n }

UnitIdle ==
    /\ contents = <<>>
    /\ replacements = <<>>
    /\ outFile = <<>>
    /\ lastOp = "init"
    /\ err = "none"
    /\ adds = 0

InitFind ==
    /\ tokensList \in SeqsUpTo(TokenAlphabet, MaxTokens)
    /\ expected \in SeqsUpTo(TokenAlphabet, MaxExpected)
    /\ startIdx \in 0..(MaxTokens + 1)
    /\ found = <<>>
    /\ pc = "call"
    /\ UnitIdle
    /\ AstIdle
    /\ RuleIdle

\* A call of find_tokens.
CallFindTokens ==
    /\ pc = "call"
    /\ found' = <<FindTokens(expected, tokensList, startIdx)>>
    /\ pc' = "find_tokens"
    /\ UNCHANGED <<tokensList, expected, startIdx, unitVars, astVars, ruleVars>>

\* A call of find_token with the kind and text of a one-element expected list.
CallFindToken ==
    /\ pc = "call"
    /\ Len(expected) = 1
    /\ found' = <<FindToken(expected[1].kind, expected[1].spelling, tokensList, startIdx)>>
    /\ pc' = "find_token"
    /\ UNCHANGED <<tokensList, expected, startIdx, unitVars, astVars, ruleVars>>

NextFind ==
    \/ CallFindTokens
    \/ CallFindToken

SpecFind == InitFind /\ [][NextFind]_vars

-----------------------------------------------------------------------------
(* Specification SpecVisit: visit_all_ast and visit_cur_unit_ast on bounded trees *)

\* Number of nodes of the tree visited.
MaxNodes == 4

\* The elements of a set of numbers in ascending order.
RECURSIVE Ascending(_)
Ascending(S) ==
    IF S = {} THEN <<>>
    ELSE LET m == CHOOSE x \in S : \A y \in S : x <= y
         IN <<m>> \o Ascending(S \ {m})

\* The trees of n nodes: node 1 is the root and par[i] < i is the parent of
\* node i; the children of a node are in the order of their numbers.
ParentMaps(n) == { par \in [2..n -> 1..n] : \A i \in 2..n : par[i] < i }
ChildrenIn(n, par, i) == Ascending({ j \in 2..n : par[j] = i })

\* A tree for the visitors: only the location files and the children matter.
VisitTree(n, par, files, rootExtentFile) ==
    [i \in 1..n |->
        [kind |-> "DECL", spelling |-> <<>>, file |-> files[i],
         extentFile |-> IF i = 1 THEN rootExtentFile ELSE files[i],
         start |-> 0, end |-> 0, children |-> ChildrenIn(n, par, i)]]

\* The location files of the nodes: the root is in the file its extent starts
\* in or, as the cursor of a translation unit, has no location file.
FileMaps(n, rootExtentFile) ==
    { files \in [1..n -> Files \cup {NoFile}] : files[1] \in {NoFile, rootExtentFile} }

InitVisit ==
    /\ \E n \in 1..MaxNodes, rootExtentFile \in Files :
        \E par \in ParentMaps(n), files \in FileMaps(n, rootExtentFile) :
            ast = VisitTree(n, par, files, rootExtentFile)
    /\ visitor = "none"
    /\ calls = <<>>
    /\ nsNode = 0
    /\ fullName = <<>>
    /\ pc = "call"
    /\ UnitIdle
    /\ FindIdle
    /\ RuleIdle

\* A call of visit_all_ast on the root with some functor.
CallVisitAll ==
    /\ pc = "call"
    /\ \E f \in [DOMAIN ast -> Returns] : calls' = VisitAllAst(ast, 1, f)
    /\ visitor' = "all"
    /\ pc' = "visited"
    /\ UNCHANGED <<ast, nsNode, fullName, unitVars, findVars, ruleVars>>

\* A call of visit_cur_unit_ast on the root with some functor.
CallVisitCur ==
    /\ pc = "call"
    /\ \E f \in [DOMAIN ast -> Returns] : calls' = VisitCurUnitAst(ast, 1, f)
    /\ visitor' = "cur"
    /\ pc' = "visited"
    /\ UNCHANGED <<ast, nsNode, fullName, unitVars, findVars, ruleVars>>

NextVisit ==
    \/ CallVisitAll
    \/ CallVisitCur

SpecVisit == InitVisit /\ [][NextVisit]_vars

-----------------------------------------------------------------------------
(* Specification SpecName: the qualified name of the nodes of bounded trees *)

\* Number of nodes of the tree a name is reconstructed in.
MaxNameNodes == 3

NodeKinds == { "NAMESPACE", "CLASS_DECL" }
NodeSpellings == { <<"A">>, <<"B">> }
\* Offsets the extent of a node ends at.
EndOffsets == { 8, 9 }

\* A tree for the names: kind, spelling, end of the extent and children matter.
NameTree(n, par, attr) ==
    [i \in 1..n |->
        [kind |-> attr[i].kind, spelling |-> attr[i].spelling, file |-> PrimaryFile,
         extentFile |-> PrimaryFile, start |-> 0, end |-> attr[i].end,
         children |-> ChildrenIn(n, par, i)]]

InitName ==
    /\ \E n \in 1..MaxNameNodes :
        \E par \in ParentMaps(n),
           attr \in [1..n -> [kind : NodeKinds, spelling : NodeSpellings, end : EndOffsets]] :
            ast = NameTree(n, par, attr)
    /\ visitor = "none"
    /\ calls = <<>>
    /\ nsNode = 0
    /\ fullName = <<>>
    /\ pc = "call"
    /\ UnitIdle
    /\ FindIdle
    /\ RuleIdle

\* A call of _utils.get_complete_namespace_name on a node of the tree.
CallUtilsName ==
    /\ pc = "call"
    /\ \E x \in DOMAIN ast :
        /\ nsNode' = x
        /\ fullName' = <<GetCompleteNamespaceName(ast, x)>>
    /\ pc' = "utils_name"
    /\ UNCHANGED <<ast, visitor, calls, unitVars, findVars, ruleVars>>

\* A call of NamespaceRename._get_complete_namespace_name on a node of the tree.
CallRenameName ==
    /\ pc = "call"
    /\ \E x \in DOMAIN ast :
        /\ nsNode' = x
        /\ fullName' = <<RenameGetCompleteNamespaceName(ast, x)>>
    /\ pc' = "rename_name"
    /\ UNCHANGED <<ast, visitor, calls, unitVars, findVars, ruleVars>>

NextName ==
    \/ CallUtilsName
    \/ CallRenameName

SpecName == InitName /\ [][NextName]_vars

-----------------------------------------------------------------------------
(* The C++ sources of the units and their parse (TransformedUnit._parse) *)

\* A source is a tree of declarations src = [n, par, attr]: node 1 is the
\* translation unit, the nodes 2..n are its declarations in the order they are
\* written, par[i] < i is the declaration that i is written in and attr[i]
\* says how i is written:
\*   kind      "NAMESPACE" or "LINKAGE_SPEC" (extern "C" { ... })
\*   spelling  the name of a namespace
\*   shape     "plain"   namespace A {
\*             "inline"  inline namespace A {
\*             "attr"    namespace [[d]] A {
\*   joined    the namespace is written in the name of the one around it:
\*             namespace A::B {
\*   comment   after the closing brace: "none", "own" (// A::B), "other" (// x)
\*   file      of a declaration of the translation unit: the file it is in;
\*             a declaration of another file is reached by an #include

KwInline == <<"i", "n", "l", "i", "n", "e">>
KwExtern == <<"e", "x", "t", "e", "r", "n">>
IdInclude == <<"i", "n", "c", "l", "u", "d", "e">>
LitC == <<"\"", "C", "\"">>
LitHeader == <<"\"", "o", "\"">>

\* A token as the lexer gives it, before it has a place in the text.
Lexed(kind, spelling) ==
    [kind |-> kind, spelling |-> spelling, opens |-> {}, closes |-> {}]

\* The namespace written in the name of namespace i, if there is one.
JoinedChild(src, i) ==
    LET cs == ChildrenIn(src.n, src.par, i)
    IN IF Len(cs) = 1 /\ src.attr[cs[1]].joined THEN cs ELSE <<>>

\* The namespaces of the name that starts with namespace i, in order.
RECURSIVE JoinedChain(_, _)
JoinedChain(src, i) ==
    IF JoinedChild(src, i) = <<>> THEN <<i>>
    ELSE <<i>> \o JoinedChain(src, JoinedChild(src, i)[1])

\* The tokens of the name A::B::C of a chain.
RECURSIVE NameTokens(_, _)
NameTokens(src, chain) ==
    IF Len(chain) = 1 THEN <<Lexed("IDENTIFIER", src.attr[chain[1]].spelling)>>
    ELSE <<Lexed("IDENTIFIER", src.attr[chain[1]].spelling),
           Lexed("PUNCTUATION", ColonColon)>> \o NameTokens(src, Tail(chain))

\* The name A::B::C of a chain as text.
RECURSIVE NameText(_, _)
NameText(src, chain) ==
    IF Len(chain) = 1 THEN src.attr[chain[1]].spelling
    ELSE src.attr[chain[1]].spelling \o ColonColon \o NameText(src, Tail(chain))

\* The tokens before the name of a namespace.
HeadTokens(shape) ==
    CASE shape = "plain" -> <<Lexed("KEYWORD", KwNamespace)>>
      [] shape = "inline" -> <<Lexed("KEYWORD", KwInline), Lexed("KEYWORD", KwNamespace)>>
      [] shape = "attr" ->
            <<Lexed("KEYWORD", KwNamespace),
              Lexed("PUNCTUATION", <<"[">>), Lexed("PUNCTUATION", <<"[">>),
              Lexed("IDENTIFIER", <<"d">>),
              Lexed("PUNCTUATION", <<"]">>), Lexed("PUNCTUATION", <<"]">>)>>

\* The comment after the closing brace of a namespace.
CommentTokens(src, i) ==
    CASE src.attr[i].comment = "none" -> <<>>
      [] src.attr[i].comment = "own" ->
            <<Lexed("COMMENT", <<"/", "/", " ">> \o NameText(src, JoinedChain(src, i)))>>
      [] src.attr[i].comment = "other" ->
            <<Lexed("COMMENT", <<"/", "/", " ", "x">>)>>

\* The extent of the nodes starts at the first token and ends with the last.
Extent(toks, nodes) ==
    [k \in 1..Len(toks) |->
        [toks[k] EXCEPT !.opens = IF k = 1 THEN nodes ELSE @,
                        !.closes = IF k = Len(toks) THEN nodes ELSE @]]

\* The tokens of declaration i with all that is written in it, and of the
\* declarations cs[k], cs[k + 1], ... one after the other.
RECURSIVE DeclTokens(_, _), BodyTokens(_, _, _)
DeclTokens(src, i) ==
    IF src.attr[i].kind = "NAMESPACE"
    THEN LET chain == JoinedChain(src, i)
             last == chain[Len(chain)]
         IN Extent(HeadTokens(src.attr[i].shape) \o NameTokens(src, chain)
                     \o <<Lexed("PUNCTUATION", <<"{">>)>>
                     \o BodyTokens(src, ChildrenIn(src.n, src.par, last), 1)
                     \o <<Lexed("PUNCTUATION", <<"}">>)>>,
                   { chain[k] : k \in 1..Len(chain) })
              \o CommentTokens(src, i)
    ELSE Extent(<<Lexed("KEYWORD", KwExtern), Lexed("LITERAL", LitC),
                  Lexed("PUNCTUATION", <<"{">>)>>
                  \o BodyTokens(src, ChildrenIn(src.n, src.par, i), 1)
                  \o <<Lexed("PUNCTUATION", <<"}">>)>>,
                {i})
BodyTokens(src, cs, k) ==
    IF k > Len(cs) THEN <<>>
    ELSE DeclTokens(src, cs[k]) \o BodyTokens(src, cs, k + 1)

\* What separates a token from the next: a comment runs to the end of its line.
Separator(tok) == IF tok.kind = "COMMENT" THEN <<"\n">> ELSE <<" ">>

\* The text of a file made of the tokens toks.
RECURSIVE TextOf(_)
TextOf(toks) ==
    IF toks = <<>> THEN <<>>
    ELSE toks[1].spelling \o Separator(toks[1]) \o TextOf(Tail(toks))

\* The tokens with their extents in the text of their file: start and end are
\* offsets into TextOf(toks).
Located(toks) ==
    [k \in 1..Len(toks) |->
        LET start == Len(TextOf(SubSeq(toks, 1, k - 1)))
        IN [kind |-> toks[k].kind, spelling |-> toks[k].spelling,
            start |-> start, end |-> start + Len(toks[k].spelling),
            opens |-> toks[k].opens, closes |-> toks[k].closes]]

\* The tokens of the primary file: its declarations, and an #include for each
\* declaration of the other file.
RECURSIVE UnitTokens(_, _, _)
UnitTokens(src, cs, k) ==
    IF k > Len(cs) THEN <<>>
    ELSE (IF src.attr[cs[k]].file = PrimaryFile
          THEN DeclTokens(src, cs[k])
          ELSE <<Lexed("PUNCTUATION", <<"#">>), Lexed("IDENTIFIER", IdInclude),
                 Lexed("LITERAL", LitHeader)>>)
         \o UnitTokens(src, cs, k + 1)

\* The declaration of the translation unit that node i is written in.
RECURSIVE TopOf(_, _)
TopOf(src, i) == IF src.par[i] = 1 THEN i ELSE TopOf(src, src.par[i])

\* The parse of a source: the text of the primary file, its tokens and the AST.
Parse(src) ==
    LET tops == ChildrenIn(src.n, src.par, 1)
        unit == Located(UnitTokens(src, tops, 1))
        \* the tokens of the file a declaration is in
        fileToks == [i \in 2..src.n |->
                        IF src.attr[TopOf(src, i)].file = PrimaryFile THEN unit
                        ELSE Located(DeclTokens(src, TopOf(src, i)))]
        startOf(i) == LET k == CHOOSE k \in 1..Len(fileToks[i]) : i \in fileToks[i][k].opens
                      IN fileToks[i][k].start
        endOf(i) == LET k == CHOOSE k \in 1..Len(fileToks[i]) : i \in fileToks[i][k].closes
                    IN fileToks[i][k].end
        text == TextOf(unit)
    IN [contents |-> text,
        tokens |-> [k \in 1..Len(unit) |->
                        [kind |-> unit[k].kind, spelling |-> unit[k].spelling,
                         start |-> unit[k].start, end |-> unit[k].end]],
        ast |-> [i \in 1..src.n |->
                    IF i = 1
                    THEN [kind |-> "TRANSLATION_UNIT", spelling |-> <<>>,
                          file |-> NoFile, extentFile |-> PrimaryFile,
                          start |-> 0, end |-> Len(text),
                          children |-> ChildrenIn(src.n, src.par, 1)]
                    ELSE [kind |-> src.attr[i].kind, spelling |-> src.attr[i].spelling,
                          file |-> src.attr[TopOf(src, i)].file,
                          extentFile |-> src.attr[TopOf(src, i)].file,
                          start |-> startOf(i), end |-> endOf(i),
                          children |-> ChildrenIn(src.n, src.par, i)]]]

-----------------------------------------------------------------------------
(* Specification SpecRename: apply_transform with NamespaceRename rules *)

\* Number of declarations of a source.
MaxDecls == 2
\* Number of rules run on a unit.
MaxRules == 2

\* How a declaration of the translation unit is written.
TopAttrs ==
    [kind : {"NAMESPACE"}, spelling : NodeSpellings, shape : {"plain"},
     joined : {FALSE}, comment : {"none", "own", "other"}, file : {PrimaryFile}]
    \cup [kind : {"NAMESPACE"}, spelling : NodeSpellings, shape : {"inline", "attr"},
          joined : {FALSE}, comment : {"none"}, file : {PrimaryFile}]
    \cup [kind : {"NAMESPACE"}, spelling : NodeSpellings, shape : {"plain"},
          joined : {FALSE}, comment : {"none"}, file : Files \ {PrimaryFile}]
    \cup [kind : {"LINKAGE_SPEC"}, spelling : {<<>>}, shape : {"plain"},
          joined : {FALSE}, comment : {"none"}, file : {PrimaryFile}]

\* How a declaration written in another one is written.
NestedAttrs ==
    [kind : {"NAMESPACE"}, spelling : NodeSpellings, shape : {"plain"},
     joined : BOOLEAN, comment : {"none"}, file : {PrimaryFile}]
    \cup [kind : {"LINKAGE_SPEC"}, spelling : {<<>>}, shape : {"plain"},
          joined : {FALSE}, comment : {"none"}, file : {PrimaryFile}]

\* Only the one namespace written in a namespace can be written in its name.
WellFormed(src) ==
    \A i \in 2..src.n :
        IF src.par[i] = 1 THEN src.attr[i] \in TopAttrs
        ELSE /\ src.attr[i] \in NestedAttrs
             /\ src.attr[i].joined =>
                    /\ src.attr[src.par[i]].kind = "NAMESPACE"
                    /\ ChildrenIn(src.n, src.par, src.par[i]) = <<i>>

\* The sources of up to MaxDecls declarations.
Sources ==
    UNION { { src \in [n : {n}, par : ParentMaps(n),
                       attr : [2..n -> TopAttrs \cup NestedAttrs]] : WellFormed(src) }
            : n \in 1..(MaxDecls + 1) }

\* The rules of a rules file.
RuleSet ==
    { NamespaceRename(<<"A">>, <<"N">>),
      NamespaceRename(<<"B">>, <<"N", ":", ":", "M">>),
      NamespaceRename(<<"A", ":", ":", "B">>, <<"N">>) }

\* The lists of up to MaxRules rules in which no rule is listed twice.
RuleLists ==
    { rs \in SeqsUpTo(RuleSet, MaxRules) :
        /\ rs # <<>>
        /\ \A i, j \in 1..Len(rs) : i # j => rs[i] # rs[j] }

\* apply_transform up to the loop: the unit is constructed from the file.
InitRename ==
    /\ \E src \in Sources :
        LET parsed == Parse(src)
        IN /\ contents = parsed.contents
           /\ tokensList = parsed.tokens
           /\ ast = parsed.ast
    /\ rules \in RuleLists
    /\ ruleIdx = 0
    /\ nodesToReplace = <<>>
    /\ rulesFile = <<>>
    /\ replacements = <<>>
    /\ outFile = <<>>
    /\ lastOp = "init"
    /\ err = "none"
    /\ adds = 0
    /\ expected = <<>>
    /\ startIdx = 0
    /\ found = <<>>
    /\ visitor = "none"
    /\ calls = <<>>
    /\ nsNode = 0
    /\ fullName = <<>>
    /\ pc = "rules"

\* An iteration of the loop of apply_transform, r.run(unit, verbose), without
\* the exception leaving the loop.
RunRuleSwallow(rule) ==
    LET run == NamespaceRenameRun(rule, ast, tokensList, replacements)
    IN /\ nodesToReplace' = run.nodes
       /\ replacements' = run.reps
       /\ err' = run.err
       /\ adds' = adds + Len(run.reps) - Len(replacements)
       /\ lastOp' = IF run.reps # replacements THEN "add" ELSE lastOp
       /\ pc' = "rules"

\* An iteration of the loop of apply_transform: r.run(unit, verbose). An
\* exception of the call leaves apply_transform.
RunRule(rule) ==
    LET run == NamespaceRenameRun(rule, ast, tokensList, replacements)
    IN /\ nodesToReplace' = run.nodes
       /\ replacements' = run.reps
       /\ err' = run.err
       /\ adds' = adds + Len(run.reps) - Len(replacements)
       /\ lastOp' = IF run.reps # replacements THEN "add" ELSE lastOp
       /\ pc' = IF run.err = "none" THEN "rules" ELSE "aborted"

\* The next rule of the list is run.
RunNextRule ==
    /\ pc = "rules"
    /\ ruleIdx < Len(rules)
    /\ RunRule(rules[ruleIdx + 1])
    /\ ruleIdx' = ruleIdx + 1
    /\ UNCHANGED <<contents, outFile, rules, rulesFile, findVars, astVars>>

\* apply_transform after the loop: unit.save(out_file).
SaveOutput ==
    /\ pc = "rules"
    /\ ruleIdx = Len(rules)
    /\ outFile' = <<GetModifiedContent(contents, replacements)>>
    /\ lastOp' = "save"
    /\ err' = "none"
    /\ pc' = "saved"
    /\ UNCHANGED <<contents, replacements, adds, findVars, astVars, ruleVars>>

NextRename ==
    \/ RunNextRule
    \/ SaveOutput

SpecRename == InitRename /\ [][NextRename]_vars

-----------------------------------------------------------------------------
(* The IncludeToQuotes rule (IncludeToQuotes.py) *)

\* tokens[i] of Python for a list index i that may be negative.
PyItem(toks, i) == IF i < 0 THEN toks[Len(toks) + i + 1] ELSE toks[i + 1]

\* The spellings of tokens[i], ..., tokens[j - 1] one after the other:
\* for i in range(i, j): include += tokens[i].spelling
RECURSIVE MergedSpelling(_, _, _)
MergedSpelling(toks, i, j) ==
    IF i >= j THEN <<>>
    ELSE toks[i + 1].spelling \o MergedSpelling(toks, i + 1, j)

\* IncludeToQuotes.__init__: the parameters are the headers to convert.
IncludeToQuotes(params) == [headers |-> params]

\* expected_start of run
ExpectedStart ==
    << [kind |-> "PUNCTUATION", spelling |-> <<"#">>],
       [kind |-> "IDENTIFIER", spelling |-> <<"i", "n", "c", "l", "u", "d", "e">>],
       [kind |-> "PUNCTUATION", spelling |-> <<"<">>] >>

\* The body of the while loop of run after a match at idx: the exception
\* raised, the pending list left and the next value of start.
IncludeBody(rule, toks, idx, reps) ==
    LET idx2 == FindToken("PUNCTUATION", <<">">>, toks, idx + 3)
        include == MergedSpelling(toks, idx + 3, idx2)
        added == IF include \in rule.headers
                 THEN AddResult(reps,
                        [start |-> toks[idx + 3].start, end |-> PyItem(toks, idx2).end,
                         file |-> PrimaryFile],
                        <<"\"">> \o include \o <<"\"">>)
                 ELSE [err |-> "none", reps |-> reps]
    IN [err |-> added.err, reps |-> added.reps, start |-> idx2 + 1]

-----------------------------------------------------------------------------
(* Specification SpecInclude: IncludeToQuotes.run, one iteration at a time *)

\* Number of pieces a token stream is made of.
MaxPieces == 3
\* Number of pending replacements up to which the scan is followed.
MaxPending == 4

\* The pieces of the token streams: a whole directive, a directive with a
\* name of two tokens, the start of a directive, a name, a closing bracket.
StreamPieces ==
    { ExpectedStart \o << [kind |-> "IDENTIFIER", spelling |-> <<"a">>],
                          [kind |-> "PUNCTUATION", spelling |-> <<">">>] >>,
      ExpectedStart \o << [kind |-> "IDENTIFIER", spelling |-> <<"a">>],
                          [kind |-> "IDENTIFIER", spelling |-> <<"b">>],
                          [kind |-> "PUNCTUATION", spelling |-> <<">">>] >>,
      ExpectedStart,
      << [kind |-> "IDENTIFIER", spelling |-> <<"a">>] >>,
      << [kind |-> "PUNCTUATION", spelling |-> <<">">>] >> }

\* The pieces put one after the other.
RECURSIVE Flatten(_)
Flatten(pieces) ==
    IF pieces = <<>> THEN <<>> ELSE pieces[1] \o Flatten(Tail(pieces))

\* The tokens of a unit whose text is the (kind, spelling) pairs toks, with
\* their extents in that text.
TokensOfText(toks) ==
    LET placed == Located([k \in 1..Len(toks) |-> Lexed(toks[k].kind, toks[k].spelling)])
    IN [k \in 1..Len(toks) |->
            [kind |-> placed[k].kind, spelling |-> placed[k].spelling,
             start |-> placed[k].start, end |-> placed[k].end]]

\* The text of a unit whose tokens are the (kind, spelling) pairs toks.
TextOfTokens(toks) ==
    TextOf([k \in 1..Len(toks) |-> Lexed(toks[k].kind, toks[k].spelling)])

\* The header names of a rules file.
HeaderNames == { <<"a">>, <<"a", "b">>, <<>> }

\* The variables the token rules leave alone.
ScanIdle ==
    /\ ruleIdx = 0
    /\ nodesToReplace = <<>>
    /\ rulesFile = <<>>
    /\ replacements = <<>>
    /\ outFile = <<>>
    /\ lastOp = "init"
    /\ err = "none"
    /\ adds = 0
    /\ expected = <<>>
    /\ found = <<>>
    /\ AstIdle

\* run up to its loop: tokens = list(unit.get_tokens()); start = 0.
InitInclude ==
    /\ \E pieces \in SeqsUpTo(StreamPieces, MaxPieces) :
        /\ tokensList = TokensOfText(Flatten(pieces))
        /\ contents = TextOfTokens(Flatten(pieces))
    /\ \E headers \in SUBSET HeaderNames : rules = <<IncludeToQuotes(headers)>>
    /\ startIdx = 0
    /\ pc = "scan"
    /\ ScanIdle

\* An iteration of the while loop of run.
IncludeIterate ==
    /\ pc = "scan"
    /\ startIdx < Len(tokensList)
    /\ Len(replacements) < MaxPending
    /\ LET idx == FindTokens(ExpectedStart, tokensList, startIdx)
       IN IF idx < 0
          THEN /\ pc' = "done"
               /\ UNCHANGED <<startIdx, replacements, err, adds, lastOp>>
          ELSE LET body == IncludeBody(rules[1], tokensList, idx, replacements)
               IN /\ replacements' = body.reps
                  /\ err' = body.err
                  /\ adds' = adds + Len(body.reps) - Len(replacements)
                  /\ lastOp' = IF body.reps # replacements THEN "add" ELSE lastOp
                  /\ startIdx' = IF body.err = "none" THEN body.start ELSE startIdx
                  /\ pc' = IF body.err = "none" THEN "scan" ELSE "aborted"
    /\ UNCHANGED <<contents, outFile, tokensList, expected, found, astVars, ruleVars>>

\* The while loop of run ends: start < n is false.
IncludeExit ==
    /\ pc = "scan"
    /\ startIdx >= Len(tokensList)
    /\ pc' = "done"
    /\ UNCHANGED <<unitVars, findVars, astVars, ruleVars>>

NextInclude ==
    \/ IncludeIterate
    \/ IncludeExit

SpecInclude == InitInclude /\ [][NextInclude]_vars

-----------------------------------------------------------------------------
(* The TokenIdReplace rule (TokenIdReplace.py) *)

\* _interpret_token_list of TokenIdReplace.py: "punct" is a punctuation, all
\* else an identifier.
RECURSIVE InterpretIdOrPunct(_)
InterpretIdOrPunct(paramsList) ==
    IF paramsList = <<>> THEN <<>>
    ELSE << [kind |-> IF paramsList[1].token = "punct" THEN "PUNCTUATION" ELSE "IDENTIFIER",
             spelling |-> paramsList[1].text] >>
         \o InterpretIdOrPunct(Tail(paramsList))

\* TokenIdReplace.__init__ with "from", "to" and the lists "prev" and "after".
TokenIdReplace(from, to, prev, after) ==
    [from |-> from, to |-> to,
     prevCount |-> Len(InterpretIdOrPunct(prev)),
     expectedTokens |-> InterpretIdOrPunct(prev)
                        \o << [kind |-> "IDENTIFIER", spelling |-> from] >>
                        \o InterpretIdOrPunct(after)]

\* The while loop of TokenIdReplace.run going on from the token after the
\* start of the match.
RECURSIVE TokenIdLoopNextIndex(_, _, _, _)
TokenIdLoopNextIndex(rule, toks, start, reps) ==
    IF ~(start < Len(toks)) THEN [err |-> "none", reps |-> reps]
    ELSE LET idx == FindTokens(rule.expectedTokens, toks, start)
         IN IF idx < 0 THEN [err |-> "none", reps |-> reps]
            ELSE LET replaceToken == toks[idx + rule.prevCount + 1]
                     added == AddResult(reps,
                                 [start |-> replaceToken.start, end |-> replaceToken.end,
                                  file |-> PrimaryFile], rule.to)
                 IN IF added.err # "none" THEN added
                    ELSE TokenIdLoopNextIndex(rule, toks, idx + 1, added.reps)

\* The while loop of TokenIdReplace.run from start on with reps pending: the
\* exception raised ("none" when the loop ends) and the pending list left.
RECURSIVE TokenIdLoop(_, _, _, _)
TokenIdLoop(rule, toks, start, reps) ==
    IF ~(start < Len(toks)) THEN [err |-> "none", reps |-> reps]
    ELSE LET idx == FindTokens(rule.expectedTokens, toks, start)
         IN IF idx < 0 THEN [err |-> "none", reps |-> reps]
            ELSE LET replaceToken == toks[idx + rule.prevCount + 1]
                     added == AddResult(reps,
                                 [start |-> replaceToken.start, end |-> replaceToken.end,
                                  file |-> PrimaryFile], rule.to)
                 IN IF added.err # "none" THEN added
                    ELSE TokenIdLoop(rule, toks, idx + rule.prevCount + 1, added.reps)

\* TokenIdReplace.run(unit, verbose)
TokenIdReplaceRun(rule, toks, reps) == TokenIdLoop(rule, toks, 0, reps)

-----------------------------------------------------------------------------
(* Specification SpecTokenId: apply_transform with one TokenIdReplace rule *)

\* Number of tokens of the unit.
MaxStream == 4
\* Number of tokens of a context of a rule.
MaxContext == 1

\* The tokens of the units.
StreamTokens ==
    { [kind |-> "IDENTIFIER", spelling |-> <<"x">>],
      [kind |-> "IDENTIFIER", spelling |-> <<"y">>],
      [kind |-> "PUNCTUATION", spelling |-> <<":", ":">>] }

\* The entries of the token lists of a rules file.
TokenParams ==
    { [token |-> "id", text |-> <<"x">>],
      [token |-> "id", text |-> <<"y">>],
      [token |-> "punct", text |-> <<":", ":">>] }

\* A unit of up to MaxStream tokens and the rules to run on it.
InitScan(ruleSet) ==
    /\ \E toks \in SeqsUpTo(StreamTokens, MaxStream) :
        /\ tokensList = TokensOfText(toks)
        /\ contents = TextOfTokens(toks)
    /\ \E rule \in ruleSet : rules = <<rule>>
    /\ startIdx = 0
    /\ pc = "rules"
    /\ ScanIdle

InitTokenId ==
    InitScan({ TokenIdReplace(<<"x">>, <<"z">>, prev, after) :
                 prev \in SeqsUpTo(TokenParams, MaxContext),
                 after \in SeqsUpTo(TokenParams, MaxContext) })

\* What an iteration of the loop of apply_transform leaves when r.run has left
\* the pending list done.reps and raised done.err.
AfterRun(done) ==
    /\ replacements' = done.reps
    /\ err' = done.err
    /\ adds' = adds + Len(done.reps) - Len(replacements)
    /\ lastOp' = IF done.reps # replacements THEN "add" ELSE lastOp
    /\ pc' = IF done.err = "none" THEN "rules" ELSE "aborted"
    /\ ruleIdx' = ruleIdx + 1
    /\ UNCHANGED <<contents, outFile, rules, rulesFile, nodesToReplace, astVars>>

\* The iteration of the loop of apply_transform: r.run(unit, verbose).
RunTokenIdReplace ==
    /\ pc = "rules"
    /\ ruleIdx < Len(rules)
    /\ AfterRun(TokenIdReplaceRun(rules[ruleIdx + 1], tokensList, replacements))
    /\ UNCHANGED findVars

NextTokenId ==
    \/ RunTokenIdReplace
    \/ SaveOutput

SpecTokenId == InitTokenId /\ [][NextTokenId]_vars

-----------------------------------------------------------------------------
(* The SurroundTokens rule (SurroundTokens.py) *)

\* SurroundTokens.__init__ with "pre", "post" and the list "tokens"; its
\* _interpret_token_list is that of TokenIdReplace.py.
SurroundTokens(pre, post, tokens) ==
    [pre |-> pre, post |-> post, tokens |-> InterpretIdOrPunct(tokens)]

\* The two add_replacement calls of the body of the loop for a match from
\* offset locStart to offset locEnd.
SurroundAdds(rule, locStart, locEnd, reps) ==
    LET before == IF rule.pre # <<>>
                  THEN AddResult(reps,
                          [start |-> locStart, end |-> locStart, file |-> PrimaryFile],
                          rule.pre)
                  ELSE [err |-> "none", reps |-> reps]
    IN IF before.err # "none" THEN before
       ELSE IF rule.post # <<>>
       THEN AddResult(before.reps,
               [start |-> locEnd, end |-> locEnd, file |-> PrimaryFile], rule.post)
       ELSE before

\* The while loop of SurroundTokens.run from start on with reps pending and
\* the matches found so far at the indices matched: the exception raised, the
\* pending list left and the indices of the matches.
RECURSIVE SurroundLoop(_, _, _, _, _)
SurroundLoop(rule, toks, start, reps, matched) ==
    IF ~(start < Len(toks)) THEN [err |-> "none", reps |-> reps, matched |-> matched]
    ELSE LET idx == FindTokens(rule.tokens, toks, start)
         IN IF idx < 0 THEN [err |-> "none", reps |-> reps, matched |-> matched]
            ELSE LET added == SurroundAdds(rule, toks[idx + 1].start,
                                  toks[idx + Len(rule.tokens)].end, reps)
                 IN IF added.err # "none"
                    THEN [err |-> added.err, reps |-> added.reps,
                          matched |-> Append(matched, idx)]
                    ELSE SurroundLoop(rule, toks, idx + Len(rule.tokens) + 1,
                                      added.reps, Append(matched, idx))

\* SurroundTokens.run(unit, verbose)
SurroundTokensRun(rule, toks, reps) == SurroundLoop(rule, toks, 0, reps, <<>>)

-----------------------------------------------------------------------------
(* Specification SpecSurround: apply_transform with one SurroundTokens rule *)

\* Number of tokens a rule looks for.
MaxTarget == 2

InitSurround ==
    InitScan({ SurroundTokens(pre, post, tokens) :
                 pre \in { <<>>, <<"P">> }, post \in { <<>>, <<"Q">> },
                 tokens \in SeqsUpTo(TokenParams, MaxTarget) \ { <<>> } })

\* The iteration of the loop of apply_transform: r.run(unit, verbose); found
\* keeps the indices at which the run has found its tokens.
RunSurroundTokens ==
    /\ pc = "rules"
    /\ ruleIdx < Len(rules)
    /\ LET done == SurroundTokensRun(rules[ruleIdx + 1], tokensList, replacements)
       IN /\ AfterRun(done)
          /\ found' = done.matched
    /\ UNCHANGED <<tokensList, expected, startIdx>>

NextSurround ==
    \/ RunSurroundTokens
    \/ SaveOutput

SpecSurround == InitSurround /\ [][NextSurround]_vars

-----------------------------------------------------------------------------
(* The ReplaceTokens rule (ReplaceTokens.py) *)

\* _utils.interpret_token_list: "punct" is a punctuation, "kwd" a keyword,
\* all else an identifier.
RECURSIVE InterpretTokenList(_)
InterpretTokenList(paramsList) ==
    IF paramsList = <<>> THEN <<>>
    ELSE << [kind |-> IF paramsList[1].token = "punct" THEN "PUNCTUATION"
                      ELSE IF paramsList[1].token = "kwd" THEN "KEYWORD"
                      ELSE "IDENTIFIER",
             spelling |-> paramsList[1].text] >>
         \o InterpretTokenList(Tail(paramsList))

\* ReplaceTokens.__init__ with "to" and the lists "tokens", "prev" and "after".
ReplaceTokens(to, tokens, prev, after) ==
    [to |-> to,
     tokens |-> InterpretTokenList(tokens),
     prevCount |-> Len(InterpretTokenList(prev)),
     expectedTokens |-> InterpretTokenList(prev) \o InterpretTokenList(tokens)
                        \o InterpretTokenList(after)]

\* The while loop of ReplaceTokens.run from start on with reps pending: the
\* exception raised ("none" when the loop ends) and the pending list left.
RECURSIVE ReplaceTokensLoop(_, _, _, _)
ReplaceTokensLoop(rule, toks, start, reps) ==
    IF ~(start < Len(toks)) THEN [err |-> "none", reps |-> reps]
    ELSE LET idx == FindTokens(rule.expectedTokens, toks, start)
         IN IF idx < 0 THEN [err |-> "none", reps |-> reps]
            ELSE LET locStart == toks[idx + rule.prevCount + 1].start
                     locEnd == toks[idx + rule.prevCount + Len(rule.tokens)].end
                     added == AddResult(reps,
                                 [start |-> locStart, end |-> locEnd,
                                  file |-> PrimaryFile], rule.to)
                 IN IF added.err # "none" THEN added
                    ELSE ReplaceTokensLoop(rule, toks, idx + rule.prevCount + 1,
                                           added.reps)

\* ReplaceTokens.run(unit, verbose)
ReplaceTokensRun(rule, toks, reps) == ReplaceTokensLoop(rule, toks, 0, reps)

-----------------------------------------------------------------------------
(* Specification SpecReplaceTokens: apply_transform with one ReplaceTokens rule *)

InitReplaceTokens ==
    InitScan({ ReplaceTokens(<<"z">>, tokens, prev, after) :
                 tokens \in SeqsUpTo(TokenParams, MaxTarget) \ { <<>> },
                 prev \in SeqsUpTo(TokenParams, MaxContext),
                 after \in SeqsUpTo(TokenParams, MaxContext) })

\* The iteration of the loop of apply_transform: r.run(unit, verbose).
RunReplaceTokens ==
    /\ pc = "rules"
    /\ ruleIdx < Len(rules)
    /\ AfterRun(ReplaceTokensRun(rules[ruleIdx + 1], tokensList, replacements))
    /\ UNCHANGED findVars

NextReplaceTokens ==
    \/ RunReplaceTokens
    \/ SaveOutput

SpecReplaceTokens == InitReplaceTokens /\ [][NextReplaceTokens]_vars

-----------------------------------------------------------------------------
(* The AddInNamespace rule (AddInNamespace.py) *)

\* AddInNamespace.__init__ with "add" and the list "in"
AddInNamespace(add, inNsList) == [add |-> add, inNsList |-> inNsList]

\* location.column of a token that starts at offset off of the text buf:
\* columns count from 1 behind the last newline before the token.
ColumnOf(buf, off) ==
    LET newlines == { k \in 1..off : buf[k] = "\n" }
        lineStart == IF newlines = {} THEN 0
                     ELSE CHOOSE k \in newlines : \A j \in newlines : j <= k
    IN off - lineStart + 1

\* ' ' * indent
Spaces(indent) == [k \in 1..indent |-> " "]

\* _visit_fun of AddInNamespace.run: what it returns for each node.
AddInVisitFun(rule, t) ==
    [x \in DOMAIN t |->
        IF t[x].kind = "NAMESPACE"
           /\ GetCompleteNamespaceName(t, x) \notin rule.inNsList
        THEN "False"
        ELSE IF t[x].kind = "TRANSLATION_UNIT" THEN "True" ELSE "False"]

\* nodes_to_change after the visit: the nodes _visit_fun was called on and
\* appended, in the order of the calls.
RECURSIVE AddInAppended(_, _, _, _)
AddInAppended(rule, t, log, k) ==
    IF k > Len(log) THEN <<>>
    ELSE LET x == log[k].node
             rest == AddInAppended(rule, t, log, k + 1)
         IN IF t[x].kind = "NAMESPACE"
               /\ GetCompleteNamespaceName(t, x) \in rule.inNsList
            THEN <<x>> \o rest
            ELSE rest

NodesToChange(rule, t) ==
    AddInAppended(rule, t, VisitCurUnitAst(t, 1, AddInVisitFun(rule, t)), 1)

\* The loop of AddInNamespace.run over nodes_to_change, from the k-th node
\* on, with reps pending, in a unit of the text buf: the exception raised
\* ("none" when the loop ends) and the pending list left.
RECURSIVE AddInLoop(_, _, _, _, _, _, _)
AddInLoop(rule, t, toks, buf, nodes, k, reps) ==
    IF k > Len(nodes) THEN [err |-> "none", reps |-> reps]
    ELSE LET tokens == GetTokens(toks, t[nodes[k]].start, t[nodes[k]].end)
             idx == FindToken("PUNCTUATION", <<"{">>, tokens, 0)
             indent == IF idx + 1 < Len(tokens)
                       THEN ColumnOf(buf, tokens[idx + 2].start) - 1
                       ELSE 0
             loc == PyItem(tokens, idx).end
             newCode == <<"\n">> \o Spaces(indent) \o rule.add \o <<"\n">>
         IN IF tokens = <<>> THEN [err |-> "index", reps |-> reps]
            ELSE IF ~(tokens[1].kind = "KEYWORD" /\ tokens[1].spelling = KwNamespace)
            THEN [err |-> "assert", reps |-> reps]
            ELSE LET added == AddResult(reps,
                                 [start |-> loc, end |-> loc, file |-> PrimaryFile],
                                 newCode)
                 IN IF added.err # "none" THEN added
                    ELSE AddInLoop(rule, t, toks, buf, nodes, k + 1, added.reps)

\* AddInNamespace.run(unit, verbose)
AddInNamespaceRun(rule, t, toks, buf, reps) ==
    AddInLoop(rule, t, toks, buf, NodesToChange(rule, t), 1, reps)

-----------------------------------------------------------------------------
(* Specification SpecAddIn: apply_transform with one AddInNamespace rule *)

\* The lists "in" of a rules file.
NamespaceLists ==
    { { <<"A">> }, { <<"A", ":", ":", "B">> }, { <<"A">>, <<"B">> } }

InitAddIn ==
    /\ \E src \in Sources :
        LET parsed == Parse(src)
        IN /\ contents = parsed.contents
           /\ tokensList = parsed.tokens
           /\ ast = parsed.ast
    /\ \E inNsList \in NamespaceLists : rules = <<AddInNamespace(<<"u">>, inNsList)>>
    /\ ruleIdx = 0
    /\ nodesToReplace = <<>>
    /\ rulesFile = <<>>
    /\ replacements = <<>>
    /\ outFile = <<>>
    /\ lastOp = "init"
    /\ err = "none"
    /\ adds = 0
    /\ expected = <<>>
    /\ startIdx = 0
    /\ found = <<>>
    /\ visitor = "none"
    /\ calls = <<>>
    /\ nsNode = 0
    /\ fullName = <<>>
    /\ pc = "rules"

\* The iteration of the loop of apply_transform: r.run(unit, verbose).
RunAddInNamespace ==
    /\ pc = "rules"
    /\ ruleIdx < Len(rules)
    /\ AfterRun(AddInNamespaceRun(rules[ruleIdx + 1], ast, tokensList, contents,
                                  replacements))
    /\ UNCHANGED findVars

NextAddIn ==
    \/ RunAddInNamespace
    \/ SaveOutput

SpecAddIn == InitAddIn /\ [][NextAddIn]_vars

-----------------------------------------------------------------------------
(* The construction of the rules (the __init__ methods, rules.py) *)

\* The parameters of a rule are modelled by the set of their keys; the values
\* are taken to have the types the schema asks for. A constructor gives the
\* exception raised ("none" when it returns) and the attributes it has set.

\* NamespaceRename.__init__: a loop over the keys given; a key that is not
\* known is reported on stderr.
NamespaceRenameInit(keys) ==
    [err |-> "none",
     attrs |-> (IF "from" \in keys THEN {"_from", "_from_num_parts"} ELSE {})
               \cup (IF "to" \in keys THEN {"_to"} ELSE {})]

\* TokenIdReplace.__init__: params["from"], params["to"]; "prev" and "after"
\* have a default.
TokenIdReplaceInit(keys) ==
    IF "from" \notin keys \/ "to" \notin keys
    THEN [err |-> "KeyError", attrs |-> {}]
    ELSE [err |-> "none",
          attrs |-> {"_from", "_from_num_parts", "_to", "_prev_count", "_expected_tokens"}]

\* ReplaceTokens.__init__: params["to"], params["tokens"]
ReplaceTokensInit(keys) ==
    IF "to" \notin keys \/ "tokens" \notin keys
    THEN [err |-> "KeyError", attrs |-> {}]
    ELSE [err |-> "none", attrs |-> {"_to", "_tokens", "_prev_count", "_expected_tokens"}]

\* SurroundTokens.__init__: params["pre"], params["post"], params["tokens"]
SurroundTokensInit(keys) ==
    IF "pre" \notin keys \/ "post" \notin keys \/ "tokens" \notin keys
    THEN [err |-> "KeyError", attrs |-> {}]
    ELSE [err |-> "none", attrs |-> {"_pre", "_post", "_tokens"}]

\* AddInNamespace.__init__: params["add"], params["in"]
AddInNamespaceInit(keys) ==
    IF "add" \notin keys \/ "in" \notin keys
    THEN [err |-> "KeyError", attrs |-> {}]
    ELSE [err |-> "none", attrs |-> {"_add", "_in_ns_list"}]

\* cls(params) for the class of the name.
ConstructRuleOf(name, keys) ==
    CASE name = "NamespaceRename" -> NamespaceRenameInit(keys)
      [] name = "TokenIdReplace" -> TokenIdReplaceInit(keys)
      [] name = "ReplaceTokens" -> ReplaceTokensInit(keys)
      [] name = "SurroundTokens" -> SurroundTokensInit(keys)
      [] name = "AddInNamespace" -> AddInNamespaceInit(keys)

\* _all_rules of rules.py, without IncludeToQuotes, whose parameters are a list.
AllRules == { "NamespaceRename", "TokenIdReplace" }

\* validate(rules_content, _schema): the schema requires "from" and "to" of
\* the parameters of NamespaceRename and of TokenIdReplace, and nothing of an
\* entry of another name.
SchemaValid(file) ==
    \A k \in 1..Len(file) :
        file[k].name \in {"NamespaceRename", "TokenIdReplace"} =>
            {"from", "to"} \subseteq file[k].keys

\* The loop of load_rules from the k-th entry on, with the rules res made so
\* far: an entry of a name not in _all_rules is reported and passed over.
RECURSIVE LoadLoop(_, _, _)
LoadLoop(file, k, res) ==
    IF k > Len(file) THEN [err |-> "none", rules |-> res]
    ELSE IF file[k].name \in AllRules
    THEN LET made == ConstructRuleOf(file[k].name, file[k].keys)
         IN IF made.err # "none" THEN [err |-> made.err, rules |-> <<>>]
            ELSE LoadLoop(file, k + 1,
                          Append(res, [name |-> file[k].name, attrs |-> made.attrs]))
    ELSE LoadLoop(file, k + 1, res)

\* load_rules(rules_file)
LoadRulesOf(file) ==
    IF ~SchemaValid(file) THEN [err |-> "ValidationError", rules |-> <<>>]
    ELSE LoadLoop(file, 1, <<>>)

-----------------------------------------------------------------------------
(* Specification SpecLoad: the rules are made, then the unit *)

\* Number of entries of a rules file.
MaxEntries == 2

\* The keys the parameters of a rule may have.
KnownKeys(name) ==
    CASE name = "NamespaceRename" -> {"from", "to"}
      [] name = "TokenIdReplace" -> {"from", "to", "prev"}
      [] name = "ReplaceTokens" -> {"to", "tokens", "prev"}
      [] name = "SurroundTokens" -> {"pre", "post", "tokens"}
      [] name = "AddInNamespace" -> {"add", "in"}

\* The entries of a rules file: a rule name and the keys of its parameters.
InitLoad ==
    /\ rulesFile \in SeqsUpTo(UNION { [name : {name}, keys : SUBSET KnownKeys(name)] :
                                      name \in { "NamespaceRename", "TokenIdReplace",
                                                 "ReplaceTokens", "SurroundTokens",
                                                 "AddInNamespace" } },
                              MaxEntries) \ { <<>> }
    /\ rules = <<>>
    /\ ruleIdx = 0
    /\ nodesToReplace = <<>>
    /\ pc = "config"
    /\ UnitIdle
    /\ FindIdle
    /\ AstIdle

\* cpp_transform_tool.load_rules: the rules of the file are loaded.
LoadRules ==
    /\ pc = "config"
    /\ LET loaded == LoadRulesOf(rulesFile)
       IN /\ rules' = loaded.rules
          /\ err' = loaded.err
          /\ pc' = IF loaded.err = "none" THEN "loaded" ELSE "failed"
    /\ UNCHANGED <<contents, replacements, outFile, lastOp, adds, ruleIdx,
                   nodesToReplace, rulesFile, findVars, astVars>>

\* The rule of the first entry is made by a call of its class, cls(params).
ConstructRule ==
    /\ pc = "config"
    /\ LET made == ConstructRuleOf(rulesFile[1].name, rulesFile[1].keys)
       IN /\ rules' = IF made.err = "none"
                      THEN <<[name |-> rulesFile[1].name, attrs |-> made.attrs]>>
                      ELSE <<>>
          /\ err' = made.err
          /\ pc' = IF made.err = "none" THEN "constructed" ELSE "failed"
    /\ UNCHANGED <<contents, replacements, outFile, lastOp, adds, ruleIdx,
                   nodesToReplace, rulesFile, findVars, astVars>>

\* apply_transform with the rules made: unit = TransformedUnit(in_file, comp_args)
CreateUnit ==
    /\ pc \in {"loaded", "constructed"}
    /\ contents' \in InitialContents
    /\ replacements' = <<>>
    /\ lastOp' = IF pc = "loaded" THEN "unit of loaded" ELSE "unit of constructed"
    /\ pc' = "unit"
    /\ UNCHANGED <<outFile, err, adds, findVars, astVars, ruleVars>>

NextLoad ==
    \/ LoadRules
    \/ ConstructRule
    \/ CreateUnit

SpecLoad == InitLoad /\ [][NextLoad]_vars

-----------------------------------------------------------------------------
(* Properties of the translation unit (specification Spec) *)

\* The elements of a sequence.
Range(seq) == { seq[k] : k \in 1..Len(seq) }

\* buf with the replacements app[1..k] of reps substituted one at a time, the
\* last one first, so that the offsets of the earlier ones stay those of buf.
RECURSIVE SpliceRight(_, _, _, _)
SpliceRight(buf, reps, app, k) ==
    IF k = 0 THEN buf
    ELSE LET r == reps[app[k]]
         IN SpliceRight(SubSeq(buf, 1, r.start) \o r.text \o SubSeq(buf, r.end + 1, Len(buf)),
                        reps, app, k - 1)

\* The buffer with every applied replacement substituted, the rest unchanged.
Spliced(buf, reps) ==
    LET app == Applied(buf, reps)
    IN SpliceRight(buf, reps, app, Len(app))

\* Two half-open ranges share a byte.
Overlap(a, b) == a.start < b.end /\ b.start < a.end

\* C1: the text materialization produces is the buffer with the range of each
\* applied replacement substituted by its text and every other byte copied in
\* order; with nothing pending it is the buffer itself; save writes that text.
C1_MaterializedText ==
    LET spliced == Spliced(contents, replacements)
    IN /\ GetModifiedContent(contents, replacements) = spliced
       /\ replacements = <<>> => GetModifiedContent(contents, replacements) = contents
       /\ lastOp = "save" => outFile = <<spliced>>

\* A save of a buffer with text between two applied replacements, one dropped.
C1_Witness ==
    LET app == Range(Applied(contents, replacements))
    IN /\ lastOp = "save"
       /\ Cardinality(app) >= 2
       /\ Dropped(contents, replacements) # <<>>
       /\ \E i \in app, j \in app : replacements[i].end < replacements[j].start
       /\ outFile # <<contents>>

\* C2: the applied replacements, in the order of their start offsets, each end
\* at or before the start of the next.
C2_AppliedDisjoint ==
    LET app == Applied(contents, replacements)
    IN /\ \A k \in 1..(Len(app) - 1) :
            /\ replacements[app[k]].start <= replacements[app[k + 1]].start
            /\ replacements[app[k]].end <= replacements[app[k + 1]].start
       /\ \A k \in 1..Len(app), l \in 1..Len(app) :
            k # l => ~Overlap(replacements[app[k]], replacements[app[l]])

\* Overlapping replacements are pending, two are applied and one is dropped.
C2_Witness ==
    /\ Len(Applied(contents, replacements)) >= 2
    /\ Dropped(contents, replacements) # <<>>
    /\ \E i \in 1..Len(replacements), j \in 1..Len(replacements) :
            i # j /\ Overlap(replacements[i], replacements[j])

\* C3 as claimed: of two overlapping pending replacements the one with the
\* earlier start offset, and at equal start offsets the one added first, is
\* applied and the other is dropped.
C3_EarliestDeclaredWins ==
    LET st == Materialize(contents, replacements)
        app == Range(st.applied)
        drop == Range(st.dropped)
    IN \A i \in 1..Len(replacements), j \in 1..Len(replacements) :
        (i < j /\ Overlap(replacements[i], replacements[j])) =>
            LET w == IF replacements[j].start < replacements[i].start THEN j ELSE i
                l == IF w = i THEN j ELSE i
            IN w \in app /\ l \in drop

\* Replacement i is materialized before replacement j: by start offset, then
\* end offset, then text, and between equal entries by the order of the adds.
Before(i, j) ==
    \/ TupleLess(replacements[i], replacements[j])
    \/ replacements[i] = replacements[j] /\ i < j

\* C3 amended: of two overlapping pending replacements, when the one that is
\* first by (start, end, text) is applied the other is dropped; the first
\* replacement in that order is always applied; every pending replacement is
\* either applied or dropped, so materialization goes on after a drop.
C3_SortOrderWins ==
    LET st == Materialize(contents, replacements)
        app == Range(st.applied)
        drop == Range(st.dropped)
    IN /\ \A i \in app, j \in 1..Len(replacements) :
            (i # j /\ Overlap(replacements[i], replacements[j]) /\ Before(i, j))
                => j \in drop
       /\ \A i \in 1..Len(replacements) :
            (\A j \in 1..Len(replacements) : j # i => Before(i, j)) => i \in app
       /\ app \cup drop = 1..Len(replacements)
       /\ app \cap drop = {}

\* Two replacements with one start offset: the one added later ends first and
\* is applied, the one added first is dropped, and a third one is applied.
C3_Witness ==
    LET st == Materialize(contents, replacements)
    IN /\ \E i \in Range(st.dropped), j \in Range(st.applied) :
            /\ i < j
            /\ replacements[i].start = replacements[j].start
            /\ replacements[j].end < replacements[i].end
       /\ Len(st.applied) >= 2

\* What C4 says of one call of add_replacement on the pending list reps.
AddOutcomeAsClaimed(reps, rng, text) ==
    LET r == AddResult(reps, rng, text)
    IN IF rng.start >= rng.end \/ rng.file # PrimaryFile
       THEN r.err # "none" /\ r.reps = reps
       ELSE /\ r.err = "none"
            /\ r.reps = reps \o <<[start |-> rng.start, end |-> rng.end, text |-> text]>>

\* C4: add_replacement fails on a range with start >= end and on a range of
\* another file, leaving the pending list as it was; otherwise it appends the
\* one entry (start, end, text); it never changes the buffer.
C4_AddReplacement ==
    /\ [](\A rng \in Ranges, text \in Texts : AddOutcomeAsClaimed(replacements, rng, text))
    /\ [][lastOp' = "add" =>
            /\ contents' = contents
            /\ err' # "none" => replacements' = replacements
            /\ err' = "none" =>
                /\ Len(replacements') = Len(replacements) + 1
                /\ SubSeq(replacements', 1, Len(replacements)) = replacements
                /\ replacements'[Len(replacements')].start < replacements'[Len(replacements')].end
                /\ replacements'[Len(replacements')].text \in Texts
       ]_vars

\* A call that failed on its range after calls that appended.
C4_Witness ==
    /\ lastOp = "add"
    /\ err = "range"
    /\ Len(replacements) >= 2

\* C5: apply_and_reparse empties the pending list and makes the buffer the text
\* save would have written; a save right after it writes the buffer as it is;
\* a later save substitutes the later replacements in the new buffer.
C5_ApplyAndReparse ==
    [][/\ lastOp' = "apply" =>
            /\ replacements' = <<>>
            /\ contents' = Spliced(contents, replacements)
       /\ (lastOp = "apply" /\ lastOp' = "save") => outFile' = <<contents>>
       /\ lastOp' = "save" => outFile' = <<Spliced(contents, replacements)>>
      ]_vars

\* A save of replacements added after a reparse that changed the buffer.
C5_Witness ==
    /\ lastOp = "save"
    /\ contents \notin InitialContents
    /\ replacements # <<>>
    /\ outFile # <<contents>>

-----------------------------------------------------------------------------
(* Properties of the token matcher (specification SpecFind) *)

\* The indices at or after start where the whole of ex lies in toks, pair by pair.
Matches(ex, toks, start) ==
    { i \in start..(Len(toks) - Len(ex)) :
        \A j \in 1..Len(ex) : /\ toks[i + j].kind = ex[j].kind
                              /\ toks[i + j].spelling = ex[j].spelling }

\* r is the least element of M, or -1 when M is empty.
LeastOrSentinel(r, M) ==
    /\ M = {} <=> r = -1
    /\ M # {} => r \in M /\ \A i \in M : r <= i

\* C6: find_tokens returns the least index at or after start_idx where the
\* expected pairs lie contiguously, and -1 exactly when there is none; the
\* match it returns fits in the list; find_token returns what find_tokens
\* returns for the one-element list [(kind, text)].
C6_FindTokens ==
    /\ pc = "find_tokens" =>
        /\ LeastOrSentinel(found[1], Matches(expected, tokensList, startIdx))
        /\ found[1] # -1 => /\ found[1] >= startIdx
                            /\ found[1] + Len(expected) <= Len(tokensList)
    /\ pc = "find_token" =>
        /\ found[1] = FindTokens(expected, tokensList, startIdx)
        /\ LeastOrSentinel(found[1], Matches(expected, tokensList, startIdx))

\* A two-token match at the end of the list, found after an index that does
\* not match.
C6_Witness ==
    /\ pc = "find_tokens"
    /\ Len(expected) = 2
    /\ found[1] > startIdx
    /\ found[1] + 2 = Len(tokensList)

-----------------------------------------------------------------------------
(* Properties of the AST visitors (specification SpecVisit) *)

\* The parent of node n in tree t, 0 for the root.
ParentOf(t, n) ==
    IF \E p \in DOMAIN t : n \in Range(t[p].children)
    THEN CHOOSE p \in DOMAIN t : n \in Range(t[p].children)
    ELSE 0

\* The proper ancestors of node n.
RECURSIVE AncestorsOf(_, _)
AncestorsOf(t, n) ==
    LET p == ParentOf(t, n)
    IN IF p = 0 THEN {} ELSE {p} \cup AncestorsOf(t, p)

\* The position of node n among the children of its parent p.
ChildPos(t, p, n) == CHOOSE k \in 1..Len(t[p].children) : t[p].children[k] = n

\* The path from the root to node n: the child positions taken.
RECURSIVE PathTo(_, _)
PathTo(t, n) ==
    LET p == ParentOf(t, n)
    IN IF p = 0 THEN <<>> ELSE Append(PathTo(t, p), ChildPos(t, p, n))

\* Pre-order: p comes before q when p is a proper prefix of q (an ancestor)
\* or goes left of q where the two part.
RECURSIVE PathLess(_, _)
PathLess(p, q) ==
    IF q = <<>> THEN FALSE
    ELSE IF p = <<>> THEN TRUE
    ELSE IF Head(p) # Head(q) THEN Head(p) < Head(q)
    ELSE PathLess(Tail(p), Tail(q))

\* The location file of node n is a file other than the file of the root.
Foreign(t, n) == t[n].file # NoFile /\ t[n].file # t[1].extentFile

\* C7: the functor is called in pre-order, on no node twice; on no descendant
\* of a node it returned False for; on no node after it returned a StopToken;
\* in visit_cur_unit_ast on no node of another file nor below one; and on
\* every node that none of these excludes.
C7_Traversal ==
    pc = "visited" =>
        LET n == Len(calls)
            path == [k \in 1..n |-> PathTo(ast, calls[k].node)]
            anc == [x \in DOMAIN ast |-> AncestorsOf(ast, x)]
            called == { calls[k].node : k \in 1..n }
            pruned == { calls[k].node : k \in { l \in 1..n : calls[l].ret = "False" } }
            foreign == IF visitor = "cur"
                       THEN { x \in DOMAIN ast : Foreign(ast, x) }
                       ELSE {}
        IN /\ \A a \in 1..n, b \in 1..n : a < b => PathLess(path[a], path[b])
           /\ \A x \in called : anc[x] \cap pruned = {}
           /\ \A a \in 1..n : calls[a].ret = "StopToken" => a = n
           /\ \A x \in called : (anc[x] \cup {x}) \cap foreign = {}
           /\ \A x \in DOMAIN ast \ called :
                \/ anc[x] \cap pruned # {}
                \/ (anc[x] \cup {x}) \cap foreign # {}
                \/ /\ n > 0
                   /\ calls[n].ret = "StopToken"
                   /\ PathLess(path[n], PathTo(ast, x))

\* visit_cur_unit_ast stopped by a StopToken two levels down: a later child
\* of the root, in the file of the root, is not called.
C7_Witness ==
    /\ pc = "visited"
    /\ visitor = "cur"
    /\ Len(calls) = 3
    /\ calls[3].ret = "StopToken"
    /\ Len(PathTo(ast, calls[3].node)) = 2
    /\ \E x \in DOMAIN ast :
        /\ ParentOf(ast, x) = 1
        /\ ~Foreign(ast, x)
        /\ \A k \in 1..3 : calls[k].node # x

-----------------------------------------------------------------------------
(* Properties of the qualified names (specification SpecName) *)

\* y continues the name of x: y is the only child of x, is a namespace and
\* its extent ends where the extent of x ends.
Continues(t, x, y) ==
    /\ t[x].children = <<y>>
    /\ t[y].kind = "NAMESPACE"
    /\ t[y].end = t[x].end

\* The spellings of the nodes of a chain joined by "::".
RECURSIVE JoinNames(_, _)
JoinNames(t, chain) ==
    IF Len(chain) = 1 THEN t[chain[1]].spelling
    ELSE t[chain[1]].spelling \o ColonColon \o JoinNames(t, Tail(chain))

\* The longest chain from x in which every node continues the one before.
IsLongestChain(t, x, chain) ==
    /\ Len(chain) >= 1
    /\ chain[1] = x
    /\ \A k \in 1..(Len(chain) - 1) : Continues(t, chain[k], chain[k + 1])
    /\ ~\E y \in DOMAIN t : Continues(t, chain[Len(chain)], y)

\* C8: the name reconstructed for a node is the spellings, joined by "::", of
\* the longest chain from it that goes from a node to its only child when that
\* child is a namespace ending where the node ends.
C8_QualifiedName ==
    pc \in {"utils_name", "rename_name"} =>
        \E chain \in SeqsUpTo(DOMAIN ast, Cardinality(DOMAIN ast)) :
            /\ IsLongestChain(ast, nsNode, chain)
            /\ fullName = <<JoinNames(ast, chain)>>

\* A name of three parts has been reconstructed from a chain of three nodes.
C8_Witness ==
    /\ pc = "utils_name"
    /\ Len(fullName[1]) = 7
    /\ Cardinality(DOMAIN ast) = 3

-----------------------------------------------------------------------------
(* Properties of apply_transform with NamespaceRename rules (SpecRename) *)

\* y is among the namespaces of the name that starts at x: y is x, or y
\* continues its parent, which is among them.
RECURSIVE InChain(_, _, _)
InChain(t, x, y) ==
    \/ y = x
    \/ LET p == ParentOf(t, y)
       IN p # 0 /\ Continues(t, p, y) /\ InChain(t, x, p)

\* The qualified name of the namespace x; a parent has a smaller number than
\* its children, so the namespaces of the name are in ascending order.
QualifiedName(t, x) ==
    JoinNames(t, Ascending({ y \in DOMAIN t : InChain(t, x, y) }))

\* The namespaces a run of the rule has to rename: the namespaces of the
\* primary file that are children of the root and have the name from.
ToRename(rule) ==
    { x \in DOMAIN ast :
        /\ ast[x].kind = "NAMESPACE"
        /\ ParentOf(ast, x) = 1
        /\ ast[x].file = PrimaryFile
        /\ QualifiedName(ast, x) = rule.from }

\* The index in the tokens of the unit of the first token of node x, and of
\* the first opening brace from there on.
FirstTokenOf(x) == CHOOSE k \in 1..Len(tokensList) : tokensList[k].start = ast[x].start
IsOpenBrace(tok) == tok.kind = "PUNCTUATION" /\ tok.spelling = <<"{">>
OpenBraceOf(x) ==
    CHOOSE k \in FirstTokenOf(x)..Len(tokensList) :
        /\ IsOpenBrace(tokensList[k])
        /\ \A j \in FirstTokenOf(x)..(k - 1) : ~IsOpenBrace(tokensList[j])

\* Node x is written as the rule asserts: the keyword namespace first and the
\* opening brace two tokens later for each part of the name from.
ShapeHolds(rule, x) ==
    /\ tokensList[FirstTokenOf(x)].kind = "KEYWORD"
    /\ tokensList[FirstTokenOf(x)].spelling = KwNamespace
    /\ OpenBraceOf(x) - FirstTokenOf(x) = 2 * rule.fromNumParts

\* The replacement of all that is between the keyword namespace of x and its
\* opening brace by the name to.
NameReplacement(rule, x) ==
    [start |-> tokensList[FirstTokenOf(x) + 1].start,
     end |-> tokensList[OpenBraceOf(x) - 1].end,
     text |-> rule.to]

\* A replacement of a comment of the unit.
OfComment(rep) ==
    \E k \in 1..Len(tokensList) :
        /\ tokensList[k].kind = "COMMENT"
        /\ rep.start = tokensList[k].start
        /\ rep.end = tokensList[k].end

\* What the claim C9 says of a run of the rule that leaves recorded as its
\* nodes_to_replace and appends the replacements new.
RunAsClaimed(rule, recorded, new) ==
    /\ Range(recorded) = ToRename(rule)
    /\ \A j, k \in 1..Len(recorded) : j # k => recorded[j] # recorded[k]
    /\ \A k \in 1..Len(recorded) :
        /\ ParentOf(ast, recorded[k]) = 1
        /\ (\A j \in 1..k : ShapeHolds(rule, recorded[j])) =>
              Cardinality({ i \in 1..Len(new) :
                              new[i] = NameReplacement(rule, recorded[k]) }) = 1
    /\ \A i \in 1..Len(new) :
        \/ \E k \in 1..Len(recorded) :
              /\ ShapeHolds(rule, recorded[k])
              /\ new[i] = NameReplacement(rule, recorded[k])
        \/ OfComment(new[i])

AssertionFails(rule, recorded) ==
    \E k \in 1..Len(recorded) : ~ShapeHolds(rule, recorded[k])

\* C10: when an assertion of a rule fails during its run, apply_transform is
\* left: no rule runs after it and save is not called, so that no output is
\* written, whatever replacements the unit holds by then.
C10_AssertionAborts ==
    /\ [](pc = "aborted" => err # "none" /\ outFile = <<>>)
    /\ [][/\ pc # "aborted"
          /\ (ruleIdx' = ruleIdx + 1
                /\ AssertionFails(rules[ruleIdx + 1], nodesToReplace'))
              => pc' = "aborted"]_vars

\* An assertion has failed on the second node of a run that had appended a
\* replacement for the first, with a rule of the list still to run.
C10_Witness ==
    /\ pc = "aborted"
    /\ err = "assert"
    /\ replacements # <<>>
    /\ ruleIdx < Len(rules)
    /\ outFile = <<>>

-----------------------------------------------------------------------------
(* Properties of IncludeToQuotes.run (specification SpecInclude) *)

IsToken(tok, kind, text) == tok.kind = kind /\ tok.spelling = text

\* The indices (from 0) at which "#", "include", "<" start in the tokens of
\* the unit with a ">" somewhere behind them.
IncludeOccurrences ==
    { i \in 0..(Len(tokensList) - 4) :
        /\ \A j \in 1..3 : IsToken(tokensList[i + j], ExpectedStart[j].kind,
                                   ExpectedStart[j].spelling)
        /\ \E c \in (i + 3)..(Len(tokensList) - 1) :
              IsToken(tokensList[c + 1], "PUNCTUATION", <<">">>) }

\* The index of the first ">" behind the occurrence at i.
ClosingOf(i) ==
    CHOOSE c \in (i + 3)..(Len(tokensList) - 1) :
        /\ IsToken(tokensList[c + 1], "PUNCTUATION", <<">">>)
        /\ \A d \in (i + 3)..(c - 1) : ~IsToken(tokensList[d + 1], "PUNCTUATION", <<">">>)

\* The name of the header of the occurrence at i.
HeaderOf(i) == MergedSpelling(tokensList, i + 3, ClosingOf(i))

\* The replacement of the occurrence at i: from "<" to ">", the name in quotes.
QuotedInclude(i) ==
    [start |-> tokensList[i + 3].start,
     end |-> tokensList[ClosingOf(i) + 1].end,
     text |-> <<"\"">> \o HeaderOf(i) \o <<"\"">>]

\* How many of the pending replacements are that of the occurrence at i.
TimesQuoted(i) ==
    Cardinality({ k \in 1..Len(replacements) : replacements[k] = QuotedInclude(i) })

\* C11: every occurrence of "#", "include", "<" with a ">" behind it gets its
\* replacement if and only if its name is among the headers of the rule, no
\* occurrence gets more than one, and nothing else is replaced.
C11_IncludesQuoted ==
    /\ \A i \in IncludeOccurrences : TimesQuoted(i) <= 1
    /\ \A k \in 1..Len(replacements) :
          \E i \in IncludeOccurrences :
              HeaderOf(i) \in rules[1].headers /\ replacements[k] = QuotedInclude(i)
    /\ pc = "done" =>
          \A i \in IncludeOccurrences :
              TimesQuoted(i) = 1 <=> HeaderOf(i) \in rules[1].headers

\* C18: the start of the scan increases with every iteration of the loop.
C18_ScanAdvances ==
    [][pc = "scan" /\ pc' = "scan" => startIdx' > startIdx]_vars

-----------------------------------------------------------------------------
(* Properties of TokenIdReplace.run (specification SpecTokenId) *)

\* The tokens of the unit from index i (from 0) on are the (kind, text) pairs ex.
TokensAre(i, ex) ==
    /\ i >= 0
    /\ i + Len(ex) <= Len(tokensList)
    /\ \A j \in 1..Len(ex) : IsToken(tokensList[i + j], ex[j].kind, ex[j].spelling)

\* The indices of the identifiers from that have the tokens prev right before
\* them and the tokens after right behind them.
IdTargets(rule) ==
    { p \in 0..(Len(tokensList) - 1) :
        TokensAre(p - rule.prevCount, rule.expectedTokens) }

\* The replacement of the token at index p by the text to.
TokenReplacement(p, to) ==
    [start |-> tokensList[p + 1].start, end |-> tokensList[p + 1].end, text |-> to]

\* C12: the run appends exactly one replacement, of the extent of the token by
\* the text to, for every identifier from with its contexts around it, and no
\* other replacement.
C12_EveryTargetReplaced ==
    ruleIdx = 1 =>
        /\ \A p \in IdTargets(rules[1]) :
              Cardinality({ k \in 1..Len(replacements) :
                              replacements[k] = TokenReplacement(p, rules[1].to) }) = 1
        /\ \A k \in 1..Len(replacements) :
              \E p \in IdTargets(rules[1]) :
                  replacements[k] = TokenReplacement(p, rules[1].to)

\* The indices of the tokens that have their replacement by the text to pending.
ReplacedTokens(to) ==
    { p \in 0..(Len(tokensList) - 1) :
        \E k \in 1..Len(replacements) : replacements[k] = TokenReplacement(p, to) }

\* C12, amended: the run appends no replacement but that of an identifier from
\* with its contexts around it, none twice, and it appends that of every such
\* identifier except those with a replaced token among the tokens of their
\* prev context: the scan goes on behind the token it has replaced.
C12_TargetsBehindReplaced ==
    ruleIdx = 1 =>
        LET rule == rules[1]
            targets == IdTargets(rule)
            replaced == ReplacedTokens(rule.to)
        IN /\ err = "none"
           /\ \A k \in 1..Len(replacements) :
                 \E p \in targets : replacements[k] = TokenReplacement(p, rule.to)
           /\ \A j, k \in 1..Len(replacements) :
                 j # k => replacements[j] # replacements[k]
           /\ \A p \in targets :
                 p \in replaced <=>
                     ~\E q \in replaced : p - rule.prevCount <= q /\ q < p

\* A run has replaced an identifier and has left alone the one behind it, of
\* which the replaced one is the prev context.
C12_Witness ==
    /\ ruleIdx = 1
    /\ \E p \in IdTargets(rules[1]) :
          /\ p \notin ReplacedTokens(rules[1].to)
          /\ p - 1 \in ReplacedTokens(rules[1].to)

-----------------------------------------------------------------------------
(* Properties of SurroundTokens.run (specification SpecSurround) *)

\* The indices (from 0) at which the tokens ex occur in the tokens of the unit.
OccurrencesOf(ex) == { i \in 0..(Len(tokensList) - 1) : TokensAre(i, ex) }

\* The text t occurs in the text s.
IsPartOf(t, s) == \E i \in 0..Len(s) : OccursAt(s, t, i)

\* The text of the unit from the first to the last token of the occurrence of
\* ex at index i.
MatchedText(i, ex) ==
    SubSeq(contents, tokensList[i + 1].start + 1, tokensList[i + Len(ex)].end)

\* C13: with a prefix and a suffix and an occurrence of its tokens in the unit,
\* the run returns and leaves pending the insertion of the prefix at the start
\* of the match and of the suffix at its end, and the output saved has the
\* prefix, the text of the match and the suffix one after the other.
C13_SurroundInserted ==
    LET rule == rules[1]
        first == CHOOSE i \in OccurrencesOf(rule.tokens) :
                    \A j \in OccurrencesOf(rule.tokens) : i <= j
    IN (ruleIdx = 1 /\ rule.pre # <<>> /\ rule.post # <<>>
          /\ OccurrencesOf(rule.tokens) # {}) =>
          /\ err = "none"
          /\ pc # "aborted"
          /\ [start |-> tokensList[first + 1].start,
              end |-> tokensList[first + 1].start, text |-> rule.pre]
                \in Range(replacements)
          /\ [start |-> tokensList[first + Len(rule.tokens)].end,
              end |-> tokensList[first + Len(rule.tokens)].end, text |-> rule.post]
                \in Range(replacements)
          /\ pc = "saved" =>
                IsPartOf(rule.pre \o MatchedText(first, rule.tokens) \o rule.post,
                         outFile[1])

\* C17: in a run that returns, the first occurrence of the tokens is matched
\* and, behind every match, so is the first occurrence that begins at or
\* behind the end of the match.
C17_ScanResumesBehindMatch ==
    (ruleIdx = 1 /\ err = "none") =>
        LET ex == rules[1].tokens
            occ == OccurrencesOf(ex)
            firstFrom(s) == CHOOSE i \in occ : i >= s /\ \A j \in occ : j >= s => i <= j
        IN /\ (\E i \in occ : i >= 0) => firstFrom(0) \in Range(found)
           /\ \A m \in Range(found) :
                 (\E i \in occ : i >= m + Len(ex)) =>
                     firstFrom(m + Len(ex)) \in Range(found)

-----------------------------------------------------------------------------
(* Properties of ReplaceTokens.run (specification SpecReplaceTokens) *)

\* C16: the replacements a run of ReplaceTokens appends cover each the tokens
\* looked for of one match, no two of them overlap, and materialization drops
\* none of them.
C16_TargetsDisjoint ==
    ruleIdx = 1 =>
        LET rule == rules[1]
        IN /\ \A k \in 1..Len(replacements) :
                 \E i \in OccurrencesOf(rule.expectedTokens) :
                     /\ replacements[k].start = tokensList[i + rule.prevCount + 1].start
                     /\ replacements[k].end =
                            tokensList[i + rule.prevCount + Len(rule.tokens)].end
           /\ \A j, k \in 1..Len(replacements) :
                 j # k => ~Overlap(replacements[j], replacements[k])
           /\ Dropped(contents, replacements) = <<>>

-----------------------------------------------------------------------------
(* Properties of AddInNamespace.run (specification SpecAddIn) *)

\* The namespaces a run of the rule has to add its text in: the namespaces
\* of the primary file that are children of the root and have a name of the
\* list.
ToChange(rule) ==
    { x \in DOMAIN ast :
        /\ ast[x].kind = "NAMESPACE"
        /\ ParentOf(ast, x) = 1
        /\ ast[x].file = PrimaryFile
        /\ QualifiedName(ast, x) \in rule.inNsList }

\* The indentation of the body of namespace x: that of the first token behind
\* the opening brace, 0 when that is the closing brace of x.
BodyIndent(x) ==
    LET first == tokensList[OpenBraceOf(x) + 1]
    IN IF first.end = ast[x].end THEN 0 ELSE ColumnOf(contents, first.start) - 1

\* The insertion of the text add as first line of the body of namespace x.
AddedLine(rule, x) ==
    [start |-> tokensList[OpenBraceOf(x)].end,
     end |-> tokensList[OpenBraceOf(x)].end,
     text |-> <<"\n">> \o Spaces(BodyIndent(x)) \o rule.add \o <<"\n">>]

\* C14: for each namespace with a name of the list the run records the
\* insertion, right behind the opening brace, of a newline, the indentation of
\* the body, the text add and a newline.
C14_TextAddedInNamespace ==
    ruleIdx = 1 =>
        \A x \in ToChange(rules[1]) : AddedLine(rules[1], x) \in Range(replacements)

-----------------------------------------------------------------------------
(* Properties of the construction of the rules (specification SpecLoad) *)

\* The keys a rule cannot do without.
RequiredKeys(name) ==
    CASE name = "NamespaceRename" -> {"from", "to"}
      [] name = "TokenIdReplace" -> {"from", "to"}
      [] name = "ReplaceTokens" -> {"to", "tokens"}
      [] name = "SurroundTokens" -> {"pre", "post", "tokens"}
      [] name = "AddInNamespace" -> {"add", "in"}

LacksKey(entry) == ~(RequiredKeys(entry.name) \subseteq entry.keys)

\* C15: when the parameters of a rule lack a required key the construction
\* fails: no rule object is made of them and no unit is created after it.
C15_MissingKeyFails ==
    /\ pc = "constructed" => ~LacksKey(rulesFile[1])
    /\ pc = "loaded" => \A k \in 1..Len(rulesFile) : ~LacksKey(rulesFile[k])
    /\ (pc = "unit" /\ lastOp = "unit of constructed") => ~LacksKey(rulesFile[1])
    /\ (pc = "unit" /\ lastOp = "unit of loaded") =>
          \A k \in 1..Len(rulesFile) : ~LacksKey(rulesFile[k])
    /\ (pc = "failed" /\ err = "KeyError") => rules = <<>>

=============================================================================
